---- MODULE Spec2Model ----
(***************************************************************************)
(* jtop: the process table (Monitor), the per-PID record (Process) and the *)
(* scrolling viewport (UI), modelled from monitor.go, process.go, ui.go    *)
(* and jtop.go.                                                            *)
(*                                                                         *)
(* Process records live in a heap of objects: Monitor.List is a slice of   *)
(* pointers and Monitor.Map a map from pid to pointer, so both are         *)
(* modelled as holding object identifiers and the fields are read through  *)
(* the heap.  Strings are sequences of byte values, bytes are their ASCII  *)
(* codes, and uint64 arithmetic is arithmetic modulo 2^UintBits.           *)
(***************************************************************************)
EXTENDS Integers, Sequences, FiniteSets, TLC

(* ------------------------------ bounds --------------------------------- *)

\* width of the unsigned counters (stands for the 64 bits of uint64)
UintBits == 4
\* PIDs 1..NumLifePids exist in the lifecycle specification
NumLifePids == 2
\* PIDs 1..NumTreePids exist in the tree specification
NumTreePids == 4
\* PIDs 1..NumSortPids exist in the sorting specification
NumSortPids == 2
\* utime and stime read from /proc/<pid>/stat are 0 or MaxJiffy
MaxJiffy == 1
\* PIDs 1..NumViewPids exist in the driver specification
NumViewPids == 3
\* the terminal height ranges over 1..MaxHeight
MaxHeight == 4
\* selected, which the Up key can take below 0 without end, is followed
\* down to -MaxUnder
MaxUnder == 2
\* PIDs 1..NumPagePids exist in the paging specification
NumPagePids == 6
\* the terminal height ranges over 1..MaxPageHeight in the paging
\* specification: half a page is up to two rows
MaxPageHeight == 6
\* the Right key is followed up to an offset of MaxOffset
MaxOffset == 2
\* PIDs 1..NumForestPids exist in the specification of the tree view
NumForestPids == 5
\* the processors runtime.NumCPU reports to NewMonitor
NumCPUs == 4
MaxSuspends == 1
NumMainPids == 1

(* ----------------------------- helpers --------------------------------- *)

UintMod == 2 ^ UintBits

\* uint64 subtraction and addition (wrap around)
USub(a, b) == (a - b + UintMod) % UintMod
UAdd(a, b) == (a + b) % UintMod

Range(s) == {s[i] : i \in DOMAIN s}

Swap(s, i, j) == [s EXCEPT ![i] = s[j], ![j] = s[i]]

RemoveAt(s, i) == SubSeq(s, 1, i - 1) \o SubSeq(s, i + 1, Len(s))

\* the nil pointer; object identifiers are positive
Nil == 0

\* the address of a newly allocated Process: any identifier no live object
\* has; the allocator's choice is fixed to the pid when that is free and to
\* the least free identifier otherwise
FreeObjs(h) == (1..(Cardinality(DOMAIN h) + 1)) \ DOMAIN h

Least(S) == CHOOSE o \in S : \A x \in S : o <= x

NewObj(h, pid) == IF pid \notin DOMAIN h THEN pid ELSE Least(FreeObjs(h))

(* ------------------------------ strings -------------------------------- *)

\* ASCII codes of the bytes the model's strings are made of
Ch == [nul |-> 0, nl |-> 10, sp |-> 32, lparen |-> 40, rparen |-> 41, comma |-> 44, minus |-> 45, dot |-> 46,
       slash |-> 47, d0 |-> 48, d1 |-> 49, d2 |-> 50, d9 |-> 57, colon |-> 58,
       a |-> 97, b |-> 98, c |-> 99]

\* the state byte of /proc/<pid>/stat, one of "RSDZTW"
St == [D |-> 68, R |-> 82, S |-> 83, T |-> 84, W |-> 87, Z |-> 90]

\* Go's < on strings: bytewise lexicographic order
RECURSIVE StrLess(_, _)
StrLess(s, t) ==
    IF t = << >> THEN FALSE
    ELSE IF s = << >> THEN TRUE
    ELSE IF Head(s) # Head(t) THEN Head(s) < Head(t)
    ELSE StrLess(Tail(s), Tail(t))

\* strings.Replace(s, "\x00", " ", -1)
NulToSpace(s) == [i \in DOMAIN s |-> IF s[i] = Ch.nul THEN Ch.sp ELSE s[i]]

\* strings.TrimSpace restricted to the blank the model's strings hold
RECURSIVE TrimLeft(_, _)
TrimLeft(s, ch) == IF s # << >> /\ Head(s) = ch THEN TrimLeft(Tail(s), ch) ELSE s

RECURSIVE TrimRight(_, _)
TrimRight(s, ch) ==
    IF s # << >> /\ s[Len(s)] = ch THEN TrimRight(SubSeq(s, 1, Len(s) - 1), ch) ELSE s

TrimSpace(s) == TrimRight(TrimLeft(s, Ch.sp), Ch.sp)

\* strings.Split(s, " ")[0]: the text before the first blank
RECURSIVE FirstWord(_)
FirstWord(s) ==
    IF s = << >> \/ Head(s) = Ch.sp THEN << >> ELSE <<Head(s)>> \o FirstWord(Tail(s))

\* the text after the last '/' of s
RECURSIVE AfterLastSlash(_)
AfterLastSlash(s) ==
    IF \E i \in DOMAIN s : s[i] = Ch.slash THEN AfterLastSlash(Tail(s)) ELSE s

\* path.Base
BaseOfTrimmed(t) == IF t = << >> THEN <<Ch.slash>> ELSE AfterLastSlash(t)

pathBase(s) == IF s = << >> THEN <<Ch.dot>> ELSE BaseOfTrimmed(TrimRight(s, Ch.slash))

\* commandToName: "/usr/bin/foo --arguments" gives "foo"; a first word that
\* ends in ':' ("postgres: writer process") gives the command line as it is
NameOf(cmdline, command) ==
    IF command # << >> /\ command[Len(command)] = Ch.colon
    THEN cmdline
    ELSE pathBase(command)

commandToName(cmdline) == NameOf(cmdline, FirstWord(cmdline))

(* ------------------------------- state --------------------------------- *)

VARIABLES
    \* Monitor (monitor.go)
    List,           \* Monitor.List: sequence of pointers to Process
    Map,            \* Monitor.Map: pid -> pointer to Process
    heap,           \* the Process objects List and Map point to
    CPUTimeTotal,   \* Monitor.CPUTimeTotal
    CPUTimeDiff,    \* Monitor.CPUTimeDiff
    \* flags (jtop.go) and the PID allow-list (monitor.go)
    sortFlag, treeFlag, kernelFlag, verboseFlag, PidWhitelist,
    delayFlag, pidsFlag, usersFlag,
    \* the users --users names (jtop.go validateUsersFlag)
    UserWhitelist,
    \* the cache of UserByUID (user.go): uid -> user; and the calls of
    \* UserByUID so far, each with its uid, whether it called user.LookupId,
    \* and what it returned
    users, lookups,
    \* UI (ui.go)
    start, selected, height, offset,
    \* the rows the last Draw put on the screen below the header
    screen,
    \* the driver (jtop.go main): where it stands, the step it took last (an
    \* event or "Draw"), and start and selected as they were before that step
    pc, lastEv, prevUI,
    \* the process and its terminal (jtop.go): the state of the terminal,
    \* the exit code once the process has ended, and what it has done to the
    \* terminal and written, in order
    term, exitCode, effects,
    \* the channels of main: whether the ticker holds a tick, the event the
    \* producer goroutine holds for the driver, how often the process has
    \* been resumed, and of the event the driver received last when it was
    \* polled and when received
    tick, polled, epoch, recv,
    \* what the last Update saw of each PID in /proc, and Monitor.Map before it
    procfs, prevMap

monVars == <<List, Map, heap, CPUTimeTotal, CPUTimeDiff>>
userVars == <<users, lookups>>
cfgVars == <<sortFlag, treeFlag, kernelFlag, verboseFlag, PidWhitelist, UserWhitelist,
             delayFlag, pidsFlag, usersFlag, userVars>>
uiVars  == <<start, selected, height, offset, screen>>
exitVars == <<term, exitCode, effects>>
chanVars == <<tick, polled, epoch, recv>>
drvVars == <<exitVars, chanVars>>
vars    == <<monVars, cfgVars, uiVars, pc, lastEv, prevUI, procfs, prevMap, drvVars>>

\* the column titles --sort accepts (ui.go Columns)
PidColumn        == "PID"
UserColumn       == "USER"
RSSColumn        == "RSS"
MemPercentColumn == "%MEM"
CPUPercentColumn == "%CPU"
CPUTimeColumn    == "TIME+"
StateColumn      == "S"
CommandColumn    == "COMMAND"

Columns == <<PidColumn, UserColumn, RSSColumn, MemPercentColumn,
             CPUPercentColumn, CPUTimeColumn, StateColumn, CommandColumn>>

(* --------------------------- flags (jtop.go) ---------------------------- *)

\* the delay between updates when -d is not given, in milliseconds
defaultDelay == 1500

\* strings.IndexByte(s, c) for a string that holds c, counted from 1
IndexByte(s, c) == CHOOSE i \in DOMAIN s : s[i] = c /\ \A j \in 1..(i - 1) : s[j] # c

\* strings.Split(s, sep) for a separator of one byte
RECURSIVE Split(_, _)
Split(s, sep) ==
    IF \A i \in DOMAIN s : s[i] # sep THEN <<s>>
    ELSE <<SubSeq(s, 1, IndexByte(s, sep) - 1)>>
         \o Split(SubSeq(s, IndexByte(s, sep) + 1, Len(s)), sep)

\* the number a string of decimal digits denotes
RECURSIVE Decimal(_)
Decimal(s) ==
    IF s = << >> THEN 0
    ELSE 10 * Decimal(SubSeq(s, 1, Len(s) - 1)) + (s[Len(s)] - Ch.d0)

\* strconv.ParseUint(s, 10, 64): an error for the empty string, for a byte
\* that is no digit (a sign is none) and for a number that does not fit
ParseUint(s) ==
    IF s = << >> \/ (\E i \in DOMAIN s : s[i] \notin Ch.d0..Ch.d9)
    THEN [err |-> TRUE, n |-> 0]
    ELSE IF Decimal(s) >= UintMod THEN [err |-> TRUE, n |-> UintMod - 1]
    ELSE [err |-> FALSE, n |-> Decimal(s)]

\* the users user.Lookup finds
KnownUsers == {<<Ch.a>>, <<Ch.b>>}

validDelay(d) == d > 0

\* validatePidsFlag: whether it returns, and the PidWhitelist it leaves
validPids(s) ==
    s = << >> \/ \A v \in Range(Split(s, Ch.comma)) : ~ParseUint(v).err

pidsOf(s) ==
    IF s = << >> THEN {} ELSE {ParseUint(v).n : v \in Range(Split(s, Ch.comma))}

validSort(t) == \E i \in DOMAIN Columns : t = Columns[i]

\* validateUsersFlag: whether it returns, and the UserWhitelist it leaves
validUsers(s) ==
    s = << >> \/ \A v \in Range(Split(s, Ch.comma)) : v \in KnownUsers

usersOf(s) ==
    IF s = << >> THEN {} ELSE Range(Split(s, Ch.comma))

\* validateFlags returns: none of the four checks calls exit
validFlags(d, p, t, u) ==
    validDelay(d) /\ validPids(p) /\ validSort(t) /\ validUsers(u)

InitPid     == 1
KthreaddPid == 2

(* ------------------------- /proc as it is read ------------------------- *)

\* What one Update reads about one PID.  kind:
\*   "absent"     the PID is not an entry of /proc
\*   "staterr"    listed, but statProcDir fails (stat of the directory or the
\*                user lookup returns an error)
\*   "readerr"    the directory is there, /proc/<pid>/stat cannot be read
\*   "malformed"  /proc/<pid>/stat is read but does not parse
\*   "ok"         /proc/<pid>/stat parses into the fields below
\* Cmdline is the content of /proc/<pid>/cmdline, CmdlineErr when it cannot
\* be read.
CmdlineErr == <<-1>>

Reading(kind, user, state, ppid, pgrp, utime, stime, rss, comm, cmdline) ==
    [kind |-> kind, User |-> user, State |-> state, Ppid |-> ppid, Pgrp |-> pgrp,
     Utime |-> utime, Stime |-> stime, RSS |-> rss, Comm |-> comm,
     Cmdline |-> cmdline]

\* a reading that carries no fields
NoReading(kind) == Reading(kind, << >>, 0, 0, 0, 0, 0, 0, << >>, << >>)

\* what a reading shows of a PID as far as the life of its record depends
\* on it: how the read ended, the owner, the process group, the state byte,
\* and whether cmdline can be read
Seen(r) ==
    [kind |-> r.kind, User |-> r.User, Pgrp |-> r.Pgrp, State |-> r.State,
     cmdline |-> r.Cmdline # CmdlineErr]

(* ------------------------ Process (process.go) -------------------------- *)

\* &Process{Pid: pid, initializing: true}
ZeroProcess(pid) ==
    [Pid |-> pid, User |-> << >>, Name |-> << >>, Command |-> << >>,
     Alive |-> FALSE,
     Parent |-> Nil, Children |-> << >>, TreePrefix |-> << >>,
     isLastChild |-> FALSE,
     State |-> 0, Ppid |-> 0, Pgrp |-> 0, Utime |-> 0, Stime |-> 0, RSS |-> 0,
     UtimeDiff |-> 0, StimeDiff |-> 0,
     initializing |-> TRUE]

IsKernelThread(p) == p.Pgrp = 0

\* A faulty test, which holds for every Process.
hasEmptyCmdlineFileAlways(p) == TRUE

hasEmptyCmdlineFile(p) == IsKernelThread(p) \/ p.State = St.Z

\* The result of a method that may return an error or panic:
\* the receiver as the call leaves it, with the outcome.
Ok(p)      == [p |-> p, err |-> FALSE, panic |-> FALSE]
Err(p)     == [p |-> p, err |-> TRUE, panic |-> FALSE]
Panic(p)   == [p |-> p, err |-> FALSE, panic |-> TRUE]

\* The lookup of the owner of /proc/<pid>: with an allow-list of users, a
\* user outside it resolves to an error (NotWhitelisted).  The cache of
\* the lookups does not change what a lookup returns.
UserByUid(wl, user) == IF wl # {} /\ user \notin wl THEN "NotWhitelisted" ELSE "ok"

\* A faulty statProcDir, which drops the error of the lookup of the owner.
statProcDirAnyUser(p, r) ==
    IF r.kind = "staterr" THEN Err(p) ELSE Ok([p EXCEPT !.User = r.User])

\* strings.IndexByte and strings.LastIndexByte as Go counts: from 0, and
\* -1 for a string without the byte
stringsIndexByte(s, c) ==
    IF \E i \in DOMAIN s : s[i] = c THEN IndexByte(s, c) - 1 ELSE -1

\* A faulty LastIndexByte, which finds the first of the bytes.
LastIndexByteFirst(s, c) == stringsIndexByte(s, c)

LastIndexByte(s, c) ==
    IF \E i \in DOMAIN s : s[i] = c
    THEN (CHOOSE i \in DOMAIN s : s[i] = c /\ \A j \in (i + 1)..Len(s) : s[j] # c) - 1
    ELSE -1

\* the places of the values of /proc/<pid>/stat after the comm, counted
\* from 0 as the constants statState .. statCguestTime
StatField == [State |-> 0, Ppid |-> 1, Pgrp |-> 2, Utime |-> 11, Stime |-> 12, RSS |-> 21]

\* parseStatFile, the text: the comm is line[commStart:commEnd], the
\* values are what follows the byte after commEnd, split at the blanks.
\* The slices are in range, the State has a byte and the five numbers
\* parse, or the call panics.
StatParses(line, commStart, commEnd, values) ==
    /\ 0 <= commStart /\ commStart <= commEnd
    /\ commEnd + 2 <= Len(line)
    /\ Len(values) > StatField.RSS
    /\ values[StatField.State + 1] # << >>
    /\ \A f \in {StatField.Ppid, StatField.Pgrp, StatField.Utime, StatField.Stime,
                  StatField.RSS} : ~ParseUint(values[f + 1]).err

StatValues(line, commEnd) ==
    IF commEnd + 2 <= Len(line)
    THEN Split(SubSeq(line, commEnd + 3, Len(line)), Ch.sp)
    ELSE << >>

StatReading(r, line, commStart, commEnd, values) ==
    IF ~StatParses(line, commStart, commEnd, values)
    THEN [r EXCEPT !.kind = "malformed"]
    ELSE [r EXCEPT !.kind = "ok",
                   !.Comm = SubSeq(line, commStart + 1, commEnd),
                   !.State = values[StatField.State + 1][1],
                   !.Ppid = ParseUint(values[StatField.Ppid + 1]).n,
                   !.Pgrp = ParseUint(values[StatField.Pgrp + 1]).n,
                   !.Utime = ParseUint(values[StatField.Utime + 1]).n,
                   !.Stime = ParseUint(values[StatField.Stime + 1]).n,
                   !.RSS = ParseUint(values[StatField.RSS + 1]).n]

\* What parseStatFile reads out of the line of /proc/<pid>/stat; r holds
\* what the other files of the PID show.
ReadStatLine(r, line) ==
    StatReading(r, line, stringsIndexByte(line, Ch.lparen) + 1,
                LastIndexByte(line, Ch.rparen),
                StatValues(line, LastIndexByte(line, Ch.rparen)))

statProcDir(p, r) ==
    IF r.kind = "staterr" THEN Err(p)
    ELSE IF UserByUid(UserWhitelist, r.User) # "ok" THEN Err(p)
    ELSE Ok([p EXCEPT !.User = r.User])

\* A faulty rule, which also reclassifies the first sample.
ReclassifyFirst(p) ==
    IF p.State = St.S /\ (p.UtimeDiff > 0 \/ p.StimeDiff > 0)
    THEN [p EXCEPT !.State = St.R]
    ELSE p

\* the reclassification of a sleeping process that used CPU
Reclassify(p) ==
    IF ~p.initializing /\ p.State = St.S /\ (p.UtimeDiff > 0 \/ p.StimeDiff > 0)
    THEN [p EXCEPT !.State = St.R]
    ELSE p

\* p.UtimeDiff = p.Utime - lastUtime, in uint64
CounterDiff(new, last) == USub(new, last)

parseStatFile(p, r) ==
    IF r.kind = "readerr" THEN Err(p)
    ELSE IF r.kind = "malformed" THEN Panic(p)
    ELSE LET p1 == IF hasEmptyCmdlineFile(p)
                   THEN [p EXCEPT !.Command = r.Comm, !.Name = r.Comm]
                   ELSE p
             p2 == [p1 EXCEPT !.State = r.State,
                              !.Ppid = r.Ppid,
                              !.Pgrp = r.Pgrp,
                              !.Utime = r.Utime,
                              !.UtimeDiff = CounterDiff(r.Utime, p.Utime),
                              !.Stime = r.Stime,
                              !.StimeDiff = CounterDiff(r.Stime, p.Stime),
                              !.RSS = r.RSS]
         IN  Ok(Reclassify(p2))

\* Process.Update after statProcDir has returned s
UpdateAfterStat(s, r) == IF s.err THEN s ELSE parseStatFile(s.p, r)

\* Process.Update
ProcessUpdate(p, r) == UpdateAfterStat(statProcDir(p, r), r)

SetCommand(p, command) ==
    Ok([p EXCEPT !.Command = command, !.Name = commandToName(command)])

parseCmdlineFile(p, r) ==
    IF r.Cmdline = CmdlineErr THEN Err(p)
    ELSE SetCommand(p, TrimSpace(NulToSpace(r.Cmdline)))

\* NewProcess after the cmdline step has returned c
NewAfterCmdline(c) == IF c.err THEN c ELSE Ok([c.p EXCEPT !.initializing = FALSE])

\* NewProcess after p.Update() has returned u
NewAfterUpdate(u, r) ==
    IF u.err \/ u.panic THEN u
    ELSE NewAfterCmdline(IF hasEmptyCmdlineFile(u.p) THEN u
                         ELSE parseCmdlineFile(u.p, r))

\* NewProcess: err stands for the nil result
NewProcess(pid, r) == NewAfterUpdate(ProcessUpdate(ZeroProcess(pid), r), r)

\* The three-character segments of a TreePrefix, kept as a sequence; the
\* box-drawing characters of the source are written + (tee), L (corner),
\* - (horizontal) and | (vertical).
defaultEnd       == "+- "
lastChildEnd     == "L- "
defaultSegment   == "|  "
lastChildSegment == "   "

\* the loop of TreeList over the chain of parents, up to init or nil
RECURSIVE AncestorSegments(_, _)
AncestorSegments(h, parent) ==
    IF parent = Nil \/ h[parent].Pid = InitPid THEN << >>
    ELSE AncestorSegments(h, h[parent].Parent)
         \o <<IF h[parent].isLastChild THEN lastChildSegment ELSE defaultSegment>>

EndSegment(p) == IF p.isLastChild THEN lastChildEnd ELSE defaultEnd

TreePrefixOf(h, o, level) ==
    IF level = 0 THEN << >>
    ELSE IF level = 1 THEN <<EndSegment(h[o])>>
    ELSE AncestorSegments(h, h[o].Parent) \o <<EndSegment(h[o])>>

\* p.TreeList(level) for the object o: the heap as the call leaves it (it
\* writes TreePrefix and isLastChild) and the slice it returns
RECURSIVE TreeList(_, _, _)
RECURSIVE TreeChildren(_, _, _, _, _)
RECURSIVE TreeAppend(_, _, _, _, _)
TreeList(h, o, level) ==
    TreeChildren([h EXCEPT ![o].TreePrefix = TreePrefixOf(h, o, level)],
                 o, 1, level, <<o>>)

\* the loop of TreeList over p.Children, from the child at index i on
TreeChildren(h, o, i, level, acc) ==
    IF i > Len(h[o].Children) THEN [heap |-> h, list |-> acc]
    ELSE TreeAppend(
             TreeList([h EXCEPT ![h[o].Children[i]].isLastChild =
                                    (i = Len(h[o].Children))],
                      h[o].Children[i], level + 1),
             o, i, level, acc)

\* processes = append(processes, child.TreeList(level+1)...), sub being
\* what the call on the child at index i has returned
TreeAppend(sub, o, i, level, acc) ==
    TreeChildren(sub.heap, o, i + 1, level, acc \o sub.list)

(* ------------------------ sort orders (process.go) ---------------------- *)

ByPidLess(p1, p2)  == p1.Pid < p2.Pid

ByUserLess(p1, p2) == StrLess(p1.User, p2.User)

ByRSSLess(p1, p2)  == p1.RSS > p2.RSS

CPUKey(p) == UAdd(p.UtimeDiff, p.StimeDiff)

ByCPULess(p1, p2) ==
    IF CPUKey(p1) = CPUKey(p2) THEN p1.Pid < p2.Pid ELSE CPUKey(p1) > CPUKey(p2)

TimeKey(p) == UAdd(p.Utime, p.Stime)

ByTimeLess(p1, p2) ==
    IF TimeKey(p1) = TimeKey(p2) THEN p1.Pid < p2.Pid ELSE TimeKey(p1) > TimeKey(p2)

ByStateLess(p1, p2) ==
    IF p1.State = p2.State THEN p1.Pid < p2.Pid ELSE p1.State < p2.State

ByNameLess(p1, p2) == StrLess(p1.Name, p2.Name)

\* the Less of the sort.Interface Update picks for a column title
Less(by, p1, p2) ==
    CASE by = PidColumn                       -> ByPidLess(p1, p2)
      [] by = UserColumn                      -> ByUserLess(p1, p2)
      [] by \in {RSSColumn, MemPercentColumn} -> ByRSSLess(p1, p2)
      [] by = CPUPercentColumn                -> ByCPULess(p1, p2)
      [] by = CPUTimeColumn                   -> ByTimeLess(p1, p2)
      [] by = StateColumn                     -> ByStateLess(p1, p2)
      [] by = CommandColumn                   -> ByNameLess(p1, p2)

\* sort.Sort on a slice of fewer than seven elements: every release of the
\* Go library sorts such a slice with insertionSort alone,
\*   for i := a+1; i < b; i++ { for j := i; j > a && Less(j, j-1); j-- { Swap(j, j-1) } }
RECURSIVE SiftLeft(_, _, _, _)
SiftLeft(by, h, s, j) ==
    IF j > 1 /\ Less(by, h[s[j]], h[s[j - 1]])
    THEN SiftLeft(by, h, Swap(s, j, j - 1), j - 1)
    ELSE s

RECURSIVE insertionSort(_, _, _, _)
insertionSort(by, h, s, i) ==
    IF i > Len(s) THEN s ELSE insertionSort(by, h, SiftLeft(by, h, s, i), i + 1)

sortSort(by, h, s) == insertionSort(by, h, s, 2)

(* -------------------------- Monitor (monitor.go) ------------------------ *)

\* A faulty pidWhitelisted, which lets every PID pass.
pidWhitelistedAll(wl, pid) == TRUE

pidWhitelisted(wl, pid) == wl = {} \/ pid \in wl

\* A Monitor while Update works on it: List, Map, the heap, and whether a
\* panic has ended the call.
Mon(l, mp, h, panic) == [List |-> l, Map |-> mp, heap |-> h, panic |-> panic]

\* for _, p := range m.List { p.Alive = false }
MarkDead(l, h) ==
    [o \in DOMAIN h |-> IF o \in Range(l) THEN [h[o] EXCEPT !.Alive = FALSE] ELSE h[o]]

\* A faulty addProcess, which appends to the List and forgets the Map.
addProcessListOnly(m, p, o) ==
    [m EXCEPT !.List = Append(m.List, o),
              !.heap = [x \in DOMAIN m.heap \cup {o} |->
                           IF x = o THEN p ELSE m.heap[x]]]

\* addProcess of the Process p, which lives at the address o
addProcessAt(m, p, o) ==
    [m EXCEPT !.List = Append(m.List, o),
              !.Map  = [k \in DOMAIN m.Map \cup {p.Pid} |->
                           IF k = p.Pid THEN o ELSE m.Map[k]],
              !.heap = [x \in DOMAIN m.heap \cup {o} |->
                           IF x = o THEN p ELSE m.heap[x]]]

addProcess(m, p) == addProcessAt(m, p, NewObj(m.heap, p.Pid))

\* A faulty refresh, which replaces the record of a PID by a new one made
\* from the reading instead of updating the record the Map holds.
ReplaceRecord(m, o, p, n) ==
    [m EXCEPT !.List = [i \in DOMAIN m.List |-> IF m.List[i] = o THEN n ELSE m.List[i]],
              !.Map  = [k \in DOMAIN m.Map |-> IF m.Map[k] = o THEN n ELSE m.Map[k]],
              !.heap = [x \in DOMAIN m.heap \cup {n} |-> IF x = n THEN p ELSE m.heap[x]]]

RefreshedAnew(m, o, u) ==
    IF u.panic THEN [m EXCEPT !.panic = TRUE]
    ELSE IF u.err THEN [m EXCEPT !.heap[o] = u.p]
    ELSE ReplaceRecord(m, o, [u.p EXCEPT !.Alive = TRUE], NewObj(m.heap, u.p.Pid))

\* the record at o, found in the Map, after its Update has returned u
Refreshed(m, o, u) ==
    IF u.panic THEN [m EXCEPT !.panic = TRUE]
    ELSE [m EXCEPT !.heap[o] = IF u.err THEN u.p ELSE [u.p EXCEPT !.Alive = TRUE]]

\* the record found in the Map is refreshed where it is
RefreshProcess(m, o, r) == Refreshed(m, o, ProcessUpdate(m.heap[o], r))

\* A faulty Discovered, which adds kernel threads whatever kernelFlag is.
DiscoveredUnfiltered(m, n) ==
    IF n.panic THEN [m EXCEPT !.panic = TRUE]
    ELSE IF n.err THEN m
    ELSE addProcess(m, [n.p EXCEPT !.Alive = TRUE])

\* a PID the Map does not hold, after NewProcess has returned n
Discovered(m, n) ==
    IF n.panic THEN [m EXCEPT !.panic = TRUE]
    ELSE IF n.err THEN m
    ELSE IF IsKernelThread(n.p) /\ ~kernelFlag THEN m
    ELSE addProcess(m, [n.p EXCEPT !.Alive = TRUE])

\* a PID the Map does not hold
DiscoverProcess(m, pid, r) == Discovered(m, NewProcess(pid, r))

\* the body of the loop over the entries of /proc, for the entry of one PID
ScanEntry(m, pid, r) ==
    IF r.kind = "absent" THEN m
    ELSE IF ~pidWhitelisted(PidWhitelist, pid) THEN m
    ELSE IF pid \in DOMAIN m.Map THEN RefreshProcess(m, m.Map[pid], r)
    ELSE DiscoverProcess(m, pid, r)

\* the loop over the entries of /proc: ioutil.ReadDir returns them sorted by
\* name, which is ascending PID order for the one-digit PIDs of the model
RECURSIVE ScanProc(_, _, _)
ScanProc(m, snap, pid) ==
    IF m.panic \/ pid \notin DOMAIN snap THEN m
    ELSE ScanProc(ScanEntry(m, pid, snap[pid]), snap, pid + 1)

\* removeDeadProcesses, from index i (1-based) down to the first element
RECURSIVE removeDeadProcesses(_, _)
removeDeadProcesses(m, i) ==
    IF i < 1 THEN m
    ELSE IF ~m.heap[m.List[i]].Alive
    THEN removeDeadProcesses(
             [m EXCEPT !.List = RemoveAt(m.List, i),
                       !.Map  = [k \in DOMAIN m.Map \ {m.heap[m.List[i]].Pid} |->
                                    m.Map[k]]],
             i - 1)
    ELSE removeDeadProcesses(m, i - 1)

\* A faulty first loop, which leaves the links of the last Update in place.
ClearLinksKept(l, h) == h

\* the first loop of associateProcesses
ClearLinks(l, h) ==
    [o \in DOMAIN h |->
        IF o \in Range(l) THEN [h[o] EXCEPT !.Parent = Nil, !.Children = << >>]
        ELSE h[o]]

\* the second loop of associateProcesses, from index i of the List on
\* p.Parent = parent; parent.Children = append(parent.Children, p), for
\* the Process at o and its parent at the address parent
Link(h, o, parent) ==
    [[h EXCEPT ![o].Parent = parent] EXCEPT ![parent].Children = Append(@, o)]

RECURSIVE LinkProcesses(_, _)
RECURSIVE LinkProcess(_, _, _, _)
LinkProcesses(m, i) ==
    IF m.panic \/ i > Len(m.List) THEN m
    ELSE LinkProcess(m, i, m.List[i], m.heap[m.List[i]])

\* the body of the second loop, for the Process p at the address o
LinkProcess(m, i, o, p) ==
    IF p.Ppid \in DOMAIN m.Map
    THEN LinkProcesses([m EXCEPT !.heap = Link(m.heap, o, m.Map[p.Ppid])], i + 1)
    ELSE IF p.Pid # InitPid /\ p.Pid # KthreaddPid
    THEN [m EXCEPT !.panic = TRUE]
    ELSE LinkProcesses(m, i + 1)

associateProcesses(m) ==
    LinkProcesses([m EXCEPT !.heap = ClearLinks(m.List, m.heap)], 1)

\* the sort at the end of Update
SortList(m) ==
    IF treeFlag
    THEN associateProcesses([m EXCEPT !.List = sortSort(PidColumn, m.heap, m.List)])
    ELSE IF sortFlag \in Range(Columns)
    THEN [m EXCEPT !.List = sortSort(sortFlag, m.heap, m.List)]
    ELSE m

\* Monitor.parseStatFile: the jiffies of the "cpu " line of /proc/stat.
\* st.kind is "ok" (the line is there and sums to st.total), "noline" (no
\* line starts with "cpu ") or "err" (the file cannot be opened or a value
\* does not parse: panic).
MonitorParseStat(total, st) == IF st.kind = "ok" THEN st.total ELSE total

\* the objects no pointer of the Monitor reaches are garbage
Collect(m) ==
    [o \in DOMAIN m.heap \cap (Range(m.List) \cup Range(m.Map)) |-> m.heap[o]]

\* Monitor.Update, reading st from /proc/stat and snap from /proc
\* Update from the call of removeDeadProcesses on
UpdateAfterScan(m) ==
    IF m.panic THEN m ELSE SortList(removeDeadProcesses(m, Len(m.List)))

UpdateResult(st, snap) ==
    IF st.kind = "err" THEN Mon(List, Map, heap, TRUE)
    ELSE UpdateAfterScan(ScanProc(Mon(List, Map, MarkDead(List, heap), FALSE), snap, 1))

\* A faulty unwinding, which writes the panic with the terminal as it is.
PanickedOpen ==
    /\ term' = term
    /\ effects' = Append(effects, "Stderr")
    /\ exitCode' = <<2>>

\* A panic in the goroutine of main, which nothing recovers: the deferred
\* termbox.Close() of main runs, the runtime writes the panic to stderr and
\* the process ends with exit code 2.
Panicked ==
    /\ term' = "closed"
    /\ effects' = effects \o <<"Close", "Stderr">>
    /\ exitCode' = <<2>>

\* main returns: the deferred termbox.Close() runs and the process ends
\* with exit code 0.
Returned ==
    /\ term' = "closed"
    /\ effects' = Append(effects, "Close")
    /\ exitCode' = <<0>>

\* A panic is not recovered: it ends the program, and what Update had done
\* so far is never read again.
UpdateTo(m, st, next) ==
    IF m.panic
    THEN /\ pc' = "panic"
         /\ Panicked
         /\ UNCHANGED monVars
    ELSE /\ pc' = next
         /\ UNCHANGED exitVars
         /\ List' = m.List
         /\ Map' = m.Map
         /\ heap' = Collect(m)
         /\ CPUTimeTotal' = MonitorParseStat(CPUTimeTotal, st)
         /\ CPUTimeDiff' = USub(MonitorParseStat(CPUTimeTotal, st), CPUTimeTotal)

Update(st, snap, next) ==
    /\ procfs' = [p \in DOMAIN snap |-> Seen(snap[p])]
    /\ prevMap' = Map
    /\ UpdateTo(UpdateResult(st, snap), st, next)

(* ------------------------------ UI (ui.go) ------------------------------ *)

headerRows == 1

\* start and selected of a UI
View(st, sel) == [start |-> st, selected |-> sel]

numProcessesOnScreen(h) == h - headerRows

bottomSelected(u, n, h) ==
    u.selected = IF n > numProcessesOnScreen(h)
                 THEN numProcessesOnScreen(h) - 1
                 ELSE n - 1

topSelected(u) == u.selected = 0

\* A faulty moreProcessesDown, which is off by one.
moreProcessesDownOffByOne(u, n, h) == n - u.start >= numProcessesOnScreen(h)

moreProcessesDown(u, n, h) == n - u.start > numProcessesOnScreen(h)

\* A faulty moreProcessesUp, which is off by one.
moreProcessesUpOffByOne(u) == u.start >= 0

moreProcessesUp(u) == u.start > 0

shouldScrollDown(u, n, h) == bottomSelected(u, n, h) /\ moreProcessesDown(u, n, h)

shouldScrollUp(u) == topSelected(u) /\ moreProcessesUp(u)

scrollDown(u) == [u EXCEPT !.start = @ + 1]
scrollUp(u)   == [u EXCEPT !.start = @ - 1]
down(u)       == [u EXCEPT !.selected = @ + 1]
\* A faulty up, which leaves the selection where it is.
upStuck(u)    == u

up(u)         == [u EXCEPT !.selected = @ - 1]

\* n is len(ui.monitor.List), h is ui.height
HandleDown(u, n, h) ==
    IF shouldScrollDown(u, n, h) THEN scrollDown(u)
    ELSE IF ~bottomSelected(u, n, h) THEN down(u)
    ELSE u

HandleUp(u) ==
    IF shouldScrollUp(u) THEN scrollUp(u)
    ELSE IF ~topSelected(u) THEN up(u)
    ELSE u

\* A faulty HandleLeft, which decrements the offset at 0 as well.
HandleLeftUnguarded(o) == o - 1

\* o is ui.offset
HandleLeft(o) == IF o > 0 THEN o - 1 ELSE o

HandleRight(o) == o + 1

HandleResetOffset(o) == 0

\* A faulty halfPage, which is the whole page.
wholePage(h) == numProcessesOnScreen(h)

\* numProcessesOnScreen() / 2: Go's integer division rounds towards zero
halfPage(h) ==
    IF numProcessesOnScreen(h) < 0
    THEN -((-numProcessesOnScreen(h)) \div 2)
    ELSE numProcessesOnScreen(h) \div 2

RECURSIVE DownTimes(_, _, _, _)
DownTimes(u, n, h, k) == IF k <= 0 THEN u ELSE DownTimes(HandleDown(u, n, h), n, h, k - 1)

RECURSIVE UpTimes(_, _)
UpTimes(u, k) == IF k <= 0 THEN u ELSE UpTimes(HandleUp(u), k - 1)

HandleCtrlD(u, n, h) == DownTimes(u, n, h, halfPage(h))

HandleCtrlU(u, h) == UpTimes(u, halfPage(h))

\* visibleProcesses up to the slice expression: start and selected as it
\* leaves them, and the end of the slice
visibleBounds(u, n, h) ==
    LET fits  == ~(n > numProcessesOnScreen(h))
        end0  == u.start + numProcessesOnScreen(h)
        diff  == end0 - n
        shift == ~fits /\ end0 > n
        st    == IF shift THEN u.start - diff ELSE u.start
        end   == IF fits THEN n ELSE IF shift THEN end0 - diff ELSE end0
        sel   == IF u.selected >= end THEN end - 1 ELSE u.selected
    IN  [start |-> st, selected |-> sel, end |-> end]

\* s[lo:hi] of a slice of length n whose capacity is not below cp panics
\* unless 0 <= lo <= hi <= cap(s)
SliceOk(lo, hi, cp) == 0 <= lo /\ lo <= hi /\ hi <= cp

\* s[lo:hi], 0-based as in Go
Slice(s, lo, hi) == SubSeq(s, lo + 1, hi)

\* What visibleProcesses leaves and returns: the view, the heap (TreeList
\* writes the prefixes), the slice processes[start:end], and whether it
\* panics on slice bounds out of range; b is visibleBounds
Visible(b, h, processes) ==
    [view |-> View(b.start, b.selected), heap |-> h,
     panic |-> ~SliceOk(b.start, b.end, Len(processes)),
     rows |-> Slice(processes, b.start, b.end)]

\* append(processes, k...) of two results of TreeList
JoinTrees(t, k) == [heap |-> k.heap, list |-> t.list \o k.list]

\* the tree branch once init's TreeList has returned t
VisibleTree(b, t, mp) ==
    IF kernelFlag
    THEN Visible(b, JoinTrees(t, TreeList(t.heap, mp[KthreaddPid], 0)).heap,
                 JoinTrees(t, TreeList(t.heap, mp[KthreaddPid], 0)).list)
    ELSE Visible(b, t.heap, t.list)

\* visibleProcesses from the slice expression on; it panics as well on the
\* nil Process of a PID the Map does not hold
VisibleFrom(b, l, mp, h) ==
    IF ~treeFlag THEN Visible(b, h, l)
    ELSE IF InitPid \notin DOMAIN mp \/ (kernelFlag /\ KthreaddPid \notin DOMAIN mp)
    THEN [view |-> View(b.start, b.selected), heap |-> h, panic |-> TRUE,
          rows |-> << >>]
    ELSE VisibleTree(b, TreeList(h, mp[InitPid], 0), mp)

visibleProcesses(u, l, mp, h, ht) == VisibleFrom(visibleBounds(u, Len(l), ht), l, mp, h)

(* ----------------------- the inputs of the model ------------------------ *)

\* The parent /proc shows for a PID: init has none, a kernel thread is
\* kthreadd or a child of kthreadd, the process of an odd PID above 2 is a
\* child of the next PID (a parent may have the greater PID once PIDs have
\* wrapped around), any other process is a child of init.
ParentPid(pid, kthread) ==
    IF pid = InitPid THEN 0
    ELSE IF kthread THEN (IF pid = KthreaddPid THEN 0 ELSE KthreaddPid)
    ELSE IF pid > KthreaddPid /\ pid % 2 = 1 THEN pid + 1
    ELSE InitPid

\* A process as /proc shows it; a kernel thread is in process group 0 and
\* has an empty cmdline.
ProcReading(pid, user, state, kthread, utime, stime, rss, comm, cmdline) ==
    Reading("ok", user, state,
            ParentPid(pid, kthread),
            IF kthread THEN 0 ELSE 1,
            utime, stime, rss, comm,
            IF kthread THEN << >> ELSE cmdline)

\* an ordinary process that sleeps: "/a" run by user "a"
PlainReading(pid) ==
    ProcReading(pid, <<Ch.a>>, St.S, FALSE, 0, 0, 1, <<Ch.a>>, <<Ch.slash, Ch.a>>)

\* a kernel thread
KthreadReading(pid) ==
    ProcReading(pid, <<Ch.a>>, St.S, TRUE, 0, 0, 0, <<Ch.b>>, << >>)

\* A process whose parent is the PID ppid: the children of kthreadd are
\* kernel threads; a child of another kernel thread is a process the kernel
\* has started (a usermode helper).
ChildReading(pid, ppid) ==
    IF ppid = KthreaddPid
    THEN [KthreadReading(pid) EXCEPT !.Ppid = ppid]
    ELSE [PlainReading(pid) EXCEPT !.Ppid = ppid]

\* /proc/stat with a "cpu " line that sums to total
StatOk(total) == [kind |-> "ok", total |-> total]

\* The reading of a PID of a given shape: the name of a kind of failure, of
\* a kind of process, or a field with the value it takes.
ShapeReading(pid, shape) ==
    CASE shape[1] = "plain"     -> PlainReading(pid)
      [] shape[1] = "kthread"   -> KthreadReading(pid)
      [] shape[1] = "nocmdline" -> [PlainReading(pid) EXCEPT !.Cmdline = CmdlineErr]
      [] shape[1] = "user"      -> [PlainReading(pid) EXCEPT !.User = shape[2]]
      [] shape[1] = "rss"       -> [PlainReading(pid) EXCEPT !.RSS = shape[2]]
      [] shape[1] = "time"      -> [PlainReading(pid) EXCEPT !.Utime = shape[2],
                                                             !.Stime = shape[3]]
      [] shape[1] = "state"     -> [PlainReading(pid) EXCEPT !.State = shape[2]]
      [] shape[1] = "cmd"       -> [PlainReading(pid) EXCEPT !.Cmdline = shape[2]]
      [] shape[1] = "child"     -> ChildReading(pid, shape[2])
      [] OTHER                  -> NoReading(shape[1])

\* /proc with PIDs 1..n, the PID p of shape shapes[p]
Snapshot(n, shapes) == [p \in 1..n |-> ShapeReading(p, shapes[p])]

\* The shapes of the sorting specification: the field the configured order
\* compares takes a few values, so that ties and inversions happen.  The
\* counters take the values of the first sample, of one more tick of user
\* or of system time, and of a counter that fell (the PID was reused).
SortShapes(by) ==
    {<<"absent">>}
    \cup CASE by = PidColumn     -> {<<"plain">>}
           [] by = UserColumn    -> {<<"user", <<Ch.a>>>>, <<"user", <<Ch.b>>>>}
           [] by \in {RSSColumn, MemPercentColumn} -> {<<"rss", 1>>, <<"rss", 2>>}
           [] by \in {CPUPercentColumn, CPUTimeColumn} ->
                  {<<"time", 0, 0>>, <<"time", MaxJiffy, 0>>, <<"time", 0, MaxJiffy>>}
           [] by = StateColumn   -> {<<"state", St.R>>, <<"state", St.S>>}
           [] by = CommandColumn -> {<<"cmd", <<Ch.slash, Ch.a>>>>, <<"cmd", <<Ch.b>>>>}

\* The shapes of the lifecycle specification.
LifeShapes == {<<"absent">>, <<"staterr">>, <<"plain">>, <<"kthread">>, <<"nocmdline">>}

\* The shapes of the tree specification.
TreeShapes == {<<"absent">>, <<"readerr">>, <<"plain">>}

(* --------------------------- specifications ---------------------------- *)

\* users = map[string]*user.User{}: no user is cached, UserByUID was not
\* called.  The specifications of Monitor.Update read the owner of a
\* process as the user the lookup gives (UserByUid) and leave the cache
\* out; UserByUID is specified on its own below.
InitCache ==
    /\ users = << >>
    /\ lookups = << >>

InitMonitor ==
    /\ List = << >>
    /\ Map = << >>
    /\ heap = << >>
    /\ CPUTimeTotal = 0
    /\ CPUTimeDiff = 0
    /\ procfs = << >>
    /\ prevMap = << >>

InitUI ==
    /\ start = 0
    /\ selected = 0
    /\ height = 0
    /\ offset = 0
    /\ screen = << >>
    /\ lastEv = "none"
    /\ prevUI = View(0, 0)

\* main when it has initialised the terminal and started the goroutine that
\* polls the terminal for events: no tick yet, no event polled
InitDriver ==
    /\ term = "open"
    /\ exitCode = << >>
    /\ effects = <<"Init">>
    /\ tick = FALSE
    /\ polled = << >>
    /\ epoch = 0
    /\ recv = << >>

\* the flags as flag.Parse leaves them when no option is given
InitFlags ==
    /\ sortFlag = CPUPercentColumn
    /\ treeFlag = FALSE
    /\ kernelFlag = FALSE
    /\ verboseFlag = FALSE
    /\ delayFlag = defaultDelay
    /\ pidsFlag = << >>
    /\ usersFlag = << >>
    /\ PidWhitelist = pidsOf(pidsFlag)
    /\ UserWhitelist = usersOf(usersFlag)
    /\ InitCache

\* Monitor.Update called on its own, on /proc with PIDs 1..n of the shapes
UpdateOn(n, shapes) ==
    /\ pc = "start"
    /\ \E sh \in [1..n -> shapes] : Update(StatOk(0), Snapshot(n, sh), "start")
    /\ UNCHANGED <<chanVars, cfgVars, uiVars, lastEv, prevUI>>

(* Monitor.Update called again and again, the list sorted by any column.   *)

InitSort ==
    /\ InitMonitor
    /\ InitUI
    /\ InitDriver
    /\ sortFlag \in Range(Columns)
    /\ treeFlag = FALSE
    /\ kernelFlag = FALSE
    /\ verboseFlag = FALSE
    /\ delayFlag = defaultDelay
    /\ pidsFlag = << >>
    /\ usersFlag = << >>
    /\ PidWhitelist = pidsOf(pidsFlag)
    /\ UserWhitelist = usersOf(usersFlag)
    /\ InitCache
    /\ pc = "start"

UpdateSort == UpdateOn(NumSortPids, SortShapes(sortFlag))

SpecSort == InitSort /\ [][UpdateSort]_vars

(* Monitor.Update called again and again while processes come and go, with *)
(* and without kernel threads and a PID allow-list.                        *)

InitLife ==
    /\ InitMonitor
    /\ InitUI
    /\ InitDriver
    /\ sortFlag = CPUPercentColumn
    /\ treeFlag = FALSE
    /\ kernelFlag \in BOOLEAN
    /\ verboseFlag = FALSE
    /\ delayFlag = defaultDelay
    /\ pidsFlag \in {<< >>, <<Ch.d1>>}
    /\ usersFlag = << >>
    /\ PidWhitelist = pidsOf(pidsFlag)
    /\ UserWhitelist = usersOf(usersFlag)
    /\ InitCache
    /\ pc = "start"

UpdateLife == UpdateOn(NumLifePids, LifeShapes)

SpecLife == InitLife /\ [][UpdateLife]_vars

(* Monitor.Update called again and again on a /proc whose stat files may   *)
(* fail to be read or to parse, with and without a PID allow-list.         *)

InitFault ==
    /\ InitMonitor
    /\ InitUI
    /\ InitDriver
    /\ sortFlag = CPUPercentColumn
    /\ treeFlag = FALSE
    /\ kernelFlag = FALSE
    /\ verboseFlag = FALSE
    /\ delayFlag = defaultDelay
    /\ pidsFlag \in {<< >>, <<Ch.d1>>, <<Ch.d2>>}
    /\ usersFlag = << >>
    /\ PidWhitelist = pidsOf(pidsFlag)
    /\ UserWhitelist = usersOf(usersFlag)
    /\ InitCache
    /\ pc = "start"

\* The shapes of the fault specification.
FaultShapes == {<<"absent">>, <<"readerr">>, <<"malformed">>, <<"plain">>}

UpdateFault == UpdateOn(NumLifePids, FaultShapes)

SpecFault == InitFault /\ [][UpdateFault]_vars

(* The start of main: flag.Parse has set the flags, validateFlags checks   *)
(* them, termboxInit initialises the terminal, and Monitor.Update sorts     *)
(* the processes it finds by the column --sort names.                       *)

\* the values of -d the model draws from, in milliseconds
Delays == {-defaultDelay, 0, defaultDelay}

\* the values of -p: none, "1", "2", "1,2", "1,", "a", "-1" and "99"
PidsInputs ==
    {<< >>, <<Ch.d1>>, <<Ch.d2>>, <<Ch.d1, Ch.comma, Ch.d2>>, <<Ch.d1, Ch.comma>>,
     <<Ch.a>>, <<Ch.minus, Ch.d1>>, <<Ch.d9, Ch.d9>>}

\* the values of -s: the titles of the columns (no -s leaves "%CPU"), and
\* names that are no title
SortInputs ==
    Range(Columns) \cup {"pid", "user", "rss", "mem", "cpu", "time", "command", "s", ""}

\* the values of -u: none, "a", "a,b", "c" and "a,c"
UsersInputs ==
    {<< >>, <<Ch.a>>, <<Ch.a, Ch.comma, Ch.b>>, <<Ch.c>>, <<Ch.a, Ch.comma, Ch.c>>}

\* main after flag.Parse: nothing is read, written or initialised yet
InitArgs ==
    /\ InitMonitor
    /\ InitUI
    /\ term = "none"
    /\ exitCode = << >>
    /\ effects = << >>
    /\ tick = FALSE
    /\ polled = << >>
    /\ epoch = 0
    /\ recv = << >>
    /\ delayFlag \in Delays
    /\ pidsFlag \in PidsInputs
    /\ sortFlag \in SortInputs
    /\ usersFlag \in UsersInputs
    /\ treeFlag = FALSE
    /\ kernelFlag = FALSE
    /\ verboseFlag = FALSE
    /\ PidWhitelist = {}
    /\ UserWhitelist = {}
    /\ InitCache
    /\ pc = "flags"

\* exit(message): the message goes to stderr, flag.Usage writes the usage to
\* stdout, os.Exit(1)
exit ==
    /\ effects' = effects \o <<"Stderr", "UsageStdout">>
    /\ exitCode' = <<1>>
    /\ pc' = "exit"
    /\ UNCHANGED term

\* validateFlags()
validateFlags ==
    /\ pc = "flags"
    /\ IF validFlags(delayFlag, pidsFlag, sortFlag, usersFlag)
       THEN /\ PidWhitelist' = pidsOf(pidsFlag)
            /\ UserWhitelist' = usersOf(usersFlag)
            /\ pc' = "init"
            /\ UNCHANGED exitVars
       ELSE /\ exit
            /\ UNCHANGED <<PidWhitelist, UserWhitelist>>
    /\ UNCHANGED <<monVars, uiVars, lastEv, prevUI, procfs, prevMap, chanVars, sortFlag,
                   treeFlag, kernelFlag, verboseFlag, delayFlag, pidsFlag, usersFlag,
                   userVars>>

\* termboxInit(): termbox.Init() succeeds, or it fails, the error goes to
\* stderr and os.Exit(2) ends the process
termboxInit(next) ==
    \/ /\ term' = "open"
       /\ effects' = Append(effects, "Init")
       /\ pc' = next
       /\ UNCHANGED exitCode
    \/ /\ effects' = Append(effects, "Stderr")
       /\ exitCode' = <<2>>
       /\ pc' = "exit"
       /\ UNCHANGED term

\* termboxInit(); defer termbox.Close(); the goroutine of the events and
\* the ticker are started
TermboxInit ==
    /\ pc = "init"
    /\ termboxInit("start")
    /\ UNCHANGED <<monVars, cfgVars, uiVars, lastEv, prevUI, procfs, prevMap, chanVars>>

UpdateArgs == UpdateOn(NumSortPids, SortShapes(sortFlag))

NextArgs ==
    \/ validateFlags
    \/ TermboxInit
    \/ UpdateArgs

SpecArgs == InitArgs /\ [][NextArgs]_vars

(* Monitor.Update called again and again with and without an allow-list   *)
(* of users, on processes of two users that come, go and change owner.     *)

InitUsers ==
    /\ InitMonitor
    /\ InitUI
    /\ InitDriver
    /\ sortFlag = CPUPercentColumn
    /\ treeFlag = FALSE
    /\ kernelFlag = FALSE
    /\ verboseFlag = FALSE
    /\ delayFlag = defaultDelay
    /\ pidsFlag = << >>
    /\ usersFlag \in {<< >>, <<Ch.a>>, <<Ch.b>>}
    /\ PidWhitelist = pidsOf(pidsFlag)
    /\ UserWhitelist = usersOf(usersFlag)
    /\ InitCache
    /\ pc = "start"

\* The shapes of the users specification.
UserShapes ==
    {<<"absent">>, <<"staterr">>, <<"user", <<Ch.a>>>>, <<"user", <<Ch.b>>>>}

UpdateUsers == UpdateOn(NumLifePids, UserShapes)

SpecUsers == InitUsers /\ [][UpdateUsers]_vars

(* Monitor.Update called again and again in tree mode.                     *)

InitTree ==
    /\ InitMonitor
    /\ InitUI
    /\ InitDriver
    /\ sortFlag = CPUPercentColumn
    /\ treeFlag = TRUE
    /\ kernelFlag = FALSE
    /\ verboseFlag = FALSE
    /\ delayFlag = defaultDelay
    /\ pidsFlag = << >>
    /\ usersFlag = << >>
    /\ PidWhitelist = pidsOf(pidsFlag)
    /\ UserWhitelist = usersOf(usersFlag)
    /\ InitCache
    /\ pc = "start"

\* The kernel gives the children of a process that has exited to init, and
\* removes the entry of a process from /proc after that: a process whose
\* parent is not listed is read as a child of init.
Reparented(r, shapes) ==
    IF r.kind = "ok" /\ r.Ppid # 0
       /\ (r.Ppid \notin DOMAIN shapes \/ shapes[r.Ppid] = <<"absent">>)
    THEN [r EXCEPT !.Ppid = InitPid]
    ELSE r

\* /proc with PIDs 1..n in tree mode: init is there, a parent of a listed
\* process is listed (its read may fail all the same)
TreeSnapshot(n, shapes) ==
    [p \in 1..n |->
        IF p = InitPid THEN PlainReading(p)
        ELSE Reparented(ShapeReading(p, shapes[p]), shapes)]

UpdateTree ==
    /\ pc = "start"
    /\ \E sh \in [1..NumTreePids -> TreeShapes] :
           /\ sh[InitPid] = <<"plain">>
           /\ Update(StatOk(0), TreeSnapshot(NumTreePids, sh), "start")
    /\ UNCHANGED <<chanVars, cfgVars, uiVars, lastEv, prevUI>>

SpecTree == InitTree /\ [][UpdateTree]_vars

(* jtop.go main: the first Update, NewUI, then the loop of Draw and select *)
(* over the ticker and the terminal's events.                              *)

\* the heights termbox.Size reports: the header row and up to MaxHeight - 1
\* rows of processes
TermHeights == 1..MaxHeight

\* jtop is started in a terminal that has room for a row below the header
StartHeights == TermHeights \ {headerRows}

\* /proc with the PIDs 1..k, all of them ordinary processes
ViewSnapshot(k) == Snapshot(k, [p \in 1..k |-> <<"plain">>])

\* The numbers of processes /proc lists: none for a /proc without a numeric
\* entry, which leaves the List as empty as an allow-list -p of PIDs that
\* are not running does.
ViewCounts == 0..NumViewPids

Init ==
    /\ InitMonitor
    /\ InitUI
    /\ InitDriver
    /\ InitFlags
    /\ pc = "start"

\* monitor.Update(); ui := NewUI(monitor)
Start ==
    /\ pc = "start"
    /\ \E k \in ViewCounts : Update(StatOk(0), ViewSnapshot(k), "draw")
    /\ \E h \in StartHeights : height' = h
    /\ UNCHANGED <<chanVars, cfgVars, start, selected, offset, screen, lastEv, prevUI>>

\* A faulty shownCommand, which shows the name whatever verboseFlag is.
shownName(p, verbose) == p.Name

\* drawProcess: the command it shows in the last column
shownCommand(p, verbose) == IF verbose THEN p.Command ELSE p.Name

\* fmt.Sprintf("%.1f", x) for the float64 x = num / den, den > 0: the
\* number of tenths it prints, rounded to the nearest
Tenths(num, den) == (20 * num + den) \div (2 * den)

\* What "%.1f" prints: a number, as its tenths, or the text of a float64
\* that is no number.
Printed(tenths) == [kind |-> "number", tenths |-> tenths]
PrintedNaN == [kind |-> "NaN"]
PrintedInf == [kind |-> "+Inf"]

\* A faulty cpuPercent, which takes no account of the number of CPUs.
cpuPercentOneCPU(udiff, sdiff, total, ncpus) ==
    IF total = 0 THEN PrintedNaN ELSE Printed(Tenths(100 * (udiff + sdiff), total))

\* drawProcess: the %CPU column.  The operands are float64: 100 * 0 / 0 is
\* NaN, 100 * x / 0 is +Inf for x > 0, and NaN added to anything is NaN.
cpuPercent(udiff, sdiff, total, ncpus) ==
    IF total = 0
    THEN (IF udiff > 0 /\ sdiff > 0 THEN PrintedInf ELSE PrintedNaN)
    ELSE Printed(Tenths(100 * (udiff + sdiff) * ncpus, total))

\* drawProcess: of the row it writes, the PID column, the %CPU column and
\* the last column (the tree prefix, in tree mode, and the command)
drawProcess(p) ==
    [Pid |-> p.Pid,
     CPU |-> cpuPercent(p.UtimeDiff, p.StimeDiff, CPUTimeDiff, NumCPUs),
     Prefix |-> IF treeFlag THEN p.TreePrefix ELSE << >>,
     Command |-> shownCommand(p, verboseFlag)]

\* ui.Draw(), v being what visibleProcesses leaves and returns
DrawRows(v) ==
    /\ start' = v.view.start
    /\ selected' = v.view.selected
    /\ IF v.panic
       THEN /\ pc' = "panic"
            /\ Panicked
            /\ UNCHANGED <<heap, screen>>
       ELSE /\ pc' = "select"
            /\ UNCHANGED exitVars
            /\ heap' = v.heap
            /\ screen' = [i \in DOMAIN v.rows |-> drawProcess(v.heap[v.rows[i]])]

Draw ==
    /\ pc = "draw"
    /\ DrawRows(visibleProcesses(View(start, selected), List, Map, heap, height))
    /\ lastEv' = "Draw"
    /\ prevUI' = View(start, selected)
    /\ UNCHANGED <<chanVars, List, Map, CPUTimeTotal, CPUTimeDiff, cfgVars, height, offset, procfs,
                   prevMap>>

\* case <-ticker: monitor.Update()
Tick ==
    /\ pc = "select"
    /\ \E k \in ViewCounts : Update(StatOk(0), ViewSnapshot(k), "draw")
    /\ lastEv' = "Tick"
    /\ prevUI' = View(start, selected)
    /\ UNCHANGED <<chanVars, cfgVars, uiVars>>

\* a key the UI handles: u is the view as the handler leaves it
OnKey(name, u) ==
    /\ pc = "select"
    /\ u.selected >= -MaxUnder
    /\ pc' = "draw"
    /\ start' = u.start
    /\ selected' = u.selected
    /\ lastEv' = name
    /\ prevUI' = View(start, selected)
    /\ UNCHANGED <<exitVars, monVars, cfgVars, height, offset, screen, procfs, prevMap>>

\* The steps of the driver below take the event as given: the channels it
\* comes from stay as they are.
Key(name, u) == OnKey(name, u) /\ UNCHANGED chanVars

KeyDown  == Key("Down", HandleDown(View(start, selected), Len(List), height))
KeyUp    == Key("Up", HandleUp(View(start, selected)))
KeyCtrlD == Key("CtrlD", HandleCtrlD(View(start, selected), Len(List), height))
KeyCtrlU == Key("CtrlU", HandleCtrlU(View(start, selected), height))

\* 'v': verboseFlag = !verboseFlag
OnKeyV ==
    /\ pc = "select"
    /\ pc' = "draw"
    /\ verboseFlag' = ~verboseFlag
    /\ lastEv' = "v"
    /\ prevUI' = View(start, selected)
    /\ UNCHANGED <<exitVars, monVars, sortFlag, treeFlag, kernelFlag, PidWhitelist,
                   UserWhitelist, delayFlag, pidsFlag, usersFlag, userVars, uiVars, procfs,
                   prevMap>>

KeyV == OnKeyV /\ UNCHANGED chanVars

\* A faulty case of 'q', which goes on with the loop.
OnKeyQLoops ==
    /\ pc = "select"
    /\ pc' = "draw"
    /\ lastEv' = "q"
    /\ prevUI' = View(start, selected)
    /\ UNCHANGED <<exitVars, monVars, cfgVars, uiVars, procfs, prevMap>>

\* 'q' or Ctrl-C: main returns
OnKeyQ ==
    /\ pc = "select"
    /\ pc' = "exit"
    /\ Returned
    /\ lastEv' = "q"
    /\ prevUI' = View(start, selected)
    /\ UNCHANGED <<monVars, cfgVars, uiVars, procfs, prevMap>>

KeyQ == OnKeyQ /\ UNCHANGED chanVars

\* EventResize: ui.HandleResize() reads the size of the terminal
OnResize(heights) ==
    /\ pc = "select"
    /\ pc' = "draw"
    /\ \E h \in heights : height' = h
    /\ lastEv' = "Resize"
    /\ prevUI' = View(start, selected)
    /\ UNCHANGED <<exitVars, monVars, cfgVars, start, selected, offset, screen, procfs,
                   prevMap>>

Resize == OnResize(TermHeights) /\ UNCHANGED chanVars

Next ==
    \/ Start
    \/ Draw
    \/ Tick
    \/ KeyDown
    \/ KeyUp
    \/ KeyCtrlD
    \/ KeyCtrlU
    \/ KeyV
    \/ KeyQ
    \/ Resize

Spec == Init /\ [][Next]_vars

(* The keys that move the selection, in terminals high enough for half a   *)
(* page to be several rows.                                                *)

PageHeights == 1..MaxPageHeight

\* monitor.Update(); ui := NewUI(monitor)
StartPage ==
    /\ pc = "start"
    /\ \E k \in 0..NumPagePids : Update(StatOk(0), ViewSnapshot(k), "draw")
    /\ \E h \in PageHeights \ {headerRows} : height' = h
    /\ UNCHANGED <<chanVars, cfgVars, start, selected, offset, screen, lastEv, prevUI>>

\* EventResize: ui.HandleResize() reads the size of the terminal
ResizePage == OnResize(PageHeights) /\ UNCHANGED chanVars

NextPage ==
    \/ StartPage
    \/ Draw
    \/ KeyDown
    \/ KeyUp
    \/ KeyCtrlD
    \/ KeyCtrlU
    \/ ResizePage

SpecPage == Init /\ [][NextPage]_vars

(* main in tree mode, in a terminal that has room for every process: the   *)
(* processes above PID 2 come and go, each the child of any other PID.     *)

InitForest ==
    /\ InitMonitor
    /\ InitUI
    /\ InitDriver
    /\ sortFlag = CPUPercentColumn
    /\ treeFlag = TRUE
    /\ kernelFlag \in BOOLEAN
    /\ verboseFlag = FALSE
    /\ delayFlag = defaultDelay
    /\ pidsFlag = << >>
    /\ usersFlag = << >>
    /\ PidWhitelist = pidsOf(pidsFlag)
    /\ UserWhitelist = usersOf(usersFlag)
    /\ InitCache
    /\ pc = "start"

ForestPids == (KthreaddPid + 1)..NumForestPids

ForestShapes ==
    {<<"absent">>} \cup {<<"child", pp>> : pp \in 1..NumForestPids}

\* init and kthreadd are there; sh gives the shapes of the other PIDs
ForestAll(sh) ==
    [p \in 1..NumForestPids |->
        IF p = InitPid THEN <<"plain">>
        ELSE IF p = KthreaddPid THEN <<"kthread">>
        ELSE sh[p]]

\* The chain of parents of p leads to init or to kthreadd in at most fuel
\* steps: no process is its own ancestor.  The parent of a process whose
\* parent is not listed is init.
RECURSIVE Rooted(_, _, _)
Rooted(sh, p, fuel) ==
    IF p <= KthreaddPid \/ sh[p] = <<"absent">> THEN TRUE
    ELSE IF fuel = 0 THEN FALSE
    ELSE Rooted(sh, sh[p][2], fuel - 1)

ForestSnapshot(sh) ==
    [p \in 1..NumForestPids |-> Reparented(ShapeReading(p, sh[p]), sh)]

\* monitor.Update() on a forest
UpdateForest(next) ==
    \E sh \in [ForestPids -> ForestShapes] :
        /\ \A p \in ForestPids : Rooted(ForestAll(sh), p, NumForestPids)
        /\ Update(StatOk(0), ForestSnapshot(ForestAll(sh)), next)

\* monitor.Update(); ui := NewUI(monitor)
StartForest ==
    /\ pc = "start"
    /\ UpdateForest("draw")
    /\ height' = NumForestPids + headerRows
    /\ UNCHANGED <<chanVars, cfgVars, start, selected, offset, screen, lastEv, prevUI>>

\* case <-ticker: monitor.Update()
TickForest ==
    /\ pc = "select"
    /\ UpdateForest("draw")
    /\ lastEv' = "Tick"
    /\ prevUI' = View(start, selected)
    /\ UNCHANGED <<chanVars, cfgVars, uiVars>>

NextForest ==
    \/ StartForest
    \/ Draw
    \/ TickForest

SpecForest == InitForest /\ [][NextForest]_vars

(* main with one process whose counters advance or stand still between    *)
(* the ticks, on a /proc/stat whose "cpu " line sums to any value.         *)

\* the sums of the jiffies of the "cpu " line
MeterTotals == 0..(UintMod - 1)

\* the process with its utime and stime at any value up to MaxJiffy
MeterShapes == {<<"time", u, s>> : u \in 0..MaxJiffy, s \in 0..MaxJiffy}

\* monitor.Update() on that /proc
UpdateMeter(next) ==
    \E total \in MeterTotals, sh \in MeterShapes :
        Update(StatOk(total), Snapshot(1, <<sh>>), next)

\* monitor.Update(); ui := NewUI(monitor)
StartMeter ==
    /\ pc = "start"
    /\ UpdateMeter("draw")
    /\ height' = 1 + headerRows
    /\ UNCHANGED <<chanVars, cfgVars, start, selected, offset, screen, lastEv, prevUI>>

\* case <-ticker: monitor.Update()
TickMeter ==
    /\ pc = "select"
    /\ UpdateMeter("draw")
    /\ lastEv' = "Tick"
    /\ prevUI' = View(start, selected)
    /\ UNCHANGED <<chanVars, cfgVars, uiVars>>

NextMeter ==
    \/ StartMeter
    \/ Draw
    \/ TickMeter

SpecMeter == Init /\ [][NextMeter]_vars

(* The calls of Monitor.Update in main, the first one and those of the     *)
(* ticker, on a /proc/stat whose "cpu " line sums to any value.            *)

\* the sums of the jiffies of the "cpu " line: every value of the counter
CPUTotals == 0..(UintMod - 1)

\* monitor.Update(), the first call
StartCPU ==
    /\ pc = "start"
    /\ \E total \in CPUTotals : Update(StatOk(total), ViewSnapshot(1), "select")
    /\ UNCHANGED <<chanVars, cfgVars, uiVars, lastEv, prevUI>>

\* case <-ticker: monitor.Update()
TickCPU ==
    /\ pc = "select"
    /\ \E total \in CPUTotals : Update(StatOk(total), ViewSnapshot(1), "select")
    /\ lastEv' = "Tick"
    /\ prevUI' = View(start, selected)
    /\ UNCHANGED <<chanVars, cfgVars, uiVars>>

NextCPU ==
    \/ StartCPU
    \/ TickCPU

SpecCPU == Init /\ [][NextCPU]_vars

(* The handlers of the horizontal offset, called between renders as the    *)
(* handlers of the other keys are.                                         *)

\* a handler of the offset has run: o is ui.offset as it leaves it
Scroll(name, o) ==
    /\ pc = "select"
    /\ pc' = "draw"
    /\ offset' = o
    /\ lastEv' = name
    /\ prevUI' = View(start, selected)
    /\ UNCHANGED <<drvVars, monVars, cfgVars, start, selected, height, screen, procfs, prevMap>>

KeyLeft == Scroll("Left", HandleLeft(offset))

KeyRight ==
    /\ offset < MaxOffset
    /\ Scroll("Right", HandleRight(offset))

KeyResetOffset == Scroll("ResetOffset", HandleResetOffset(offset))

NextScroll ==
    \/ Start
    \/ Draw
    \/ KeyDown
    \/ KeyUp
    \/ KeyLeft
    \/ KeyRight
    \/ KeyResetOffset

SpecScroll == Init /\ [][NextScroll]_vars

(* main with the goroutine that polls the terminal and with the ticker:    *)
(* the driver takes the events from the goroutine and the ticks from the   *)
(* ticker, Ctrl-Z suspends the process, and /proc may hold a stat file     *)
(* that does not parse.                                                    *)

MainShapes == {<<"absent">>, <<"plain">>, <<"malformed">>}

MainHeights == headerRows..(headerRows + NumMainPids)

\* the events termbox.PollEvent returns: the keys main handles, the resize
\* of the terminal, and a key main has no case for
MainEvents == {"Down", "Up", "CtrlD", "CtrlU", "v", "q", "CtrlZ", "Resize", "Other"}

\* monitor.Update(); ui := NewUI(monitor)
StartMain ==
    /\ pc = "start"
    /\ \E sh \in [1..NumMainPids -> MainShapes] :
           Update(StatOk(0), Snapshot(NumMainPids, sh), "draw")
    /\ \E h \in MainHeights \ {headerRows} : height' = h
    /\ UNCHANGED <<chanVars, cfgVars, start, selected, offset, screen, lastEv, prevUI>>

\* time.Tick(delayFlag): the ticker puts a tick into its channel, which
\* holds one tick at most
Ticker ==
    /\ exitCode = << >>
    /\ ~tick
    /\ tick' = TRUE
    /\ UNCHANGED <<monVars, cfgVars, uiVars, pc, lastEv, prevUI, procfs, prevMap,
                   exitVars, polled, epoch, recv>>

\* the goroutine: termbox.PollEvent() returns an event, which the goroutine
\* then holds until the driver takes it (events <- ...)
PollEvent ==
    /\ exitCode = << >>
    /\ polled = << >>
    /\ \E k \in MainEvents :
           /\ k = "CtrlZ" => epoch < MaxSuspends
           /\ polled' = <<[key |-> k, epoch |-> epoch]>>
    /\ UNCHANGED <<monVars, cfgVars, uiVars, pc, lastEv, prevUI, procfs, prevMap,
                   exitVars, tick, epoch, recv>>

\* case ev := <-events, for the event k: the goroutine is free to poll
\* again
Receive(k) ==
    /\ pc = "select"
    /\ IF polled = << >> THEN FALSE ELSE polled[1].key = k
    /\ polled' = << >>
    /\ recv' = <<[epoch |-> polled[1].epoch, at |-> epoch]>>
    /\ UNCHANGED <<tick, epoch>>

\* A faulty case of the ticker, which goes back to the select.
MainTickUnrendered ==
    /\ pc = "select"
    /\ tick
    /\ tick' = FALSE
    /\ \E sh \in [1..NumMainPids -> MainShapes] :
           Update(StatOk(0), Snapshot(NumMainPids, sh), "select")
    /\ lastEv' = "Tick"
    /\ prevUI' = View(start, selected)
    /\ UNCHANGED <<polled, epoch, recv, cfgVars, uiVars>>

\* case <-ticker: monitor.Update()
MainTick ==
    /\ pc = "select"
    /\ tick
    /\ tick' = FALSE
    /\ \E sh \in [1..NumMainPids -> MainShapes] :
           Update(StatOk(0), Snapshot(NumMainPids, sh), "draw")
    /\ lastEv' = "Tick"
    /\ prevUI' = View(start, selected)
    /\ UNCHANGED <<polled, epoch, recv, cfgVars, uiVars>>

MainKeyDown ==
    Receive("Down") /\ OnKey("Down", HandleDown(View(start, selected), Len(List), height))

MainKeyUp == Receive("Up") /\ OnKey("Up", HandleUp(View(start, selected)))

MainKeyCtrlD ==
    Receive("CtrlD") /\ OnKey("CtrlD", HandleCtrlD(View(start, selected), Len(List), height))

MainKeyCtrlU == Receive("CtrlU") /\ OnKey("CtrlU", HandleCtrlU(View(start, selected), height))

MainKeyV == Receive("v") /\ OnKeyV

MainKeyQ == Receive("q") /\ OnKeyQ

MainResize == Receive("Resize") /\ OnResize(MainHeights)

\* an event no case of the switch matches
MainOther ==
    /\ Receive("Other")
    /\ pc' = "draw"
    /\ lastEv' = "Other"
    /\ prevUI' = View(start, selected)
    /\ UNCHANGED <<exitVars, monVars, cfgVars, uiVars, procfs, prevMap>>

\* case ev.Key == termbox.KeyCtrlZ: termbox.Close()
MainKeyCtrlZ ==
    /\ Receive("CtrlZ")
    /\ pc' = "suspend"
    /\ term' = "closed"
    /\ effects' = Append(effects, "Close")
    /\ lastEv' = "CtrlZ"
    /\ prevUI' = View(start, selected)
    /\ UNCHANGED <<exitCode, monVars, cfgVars, uiVars, procfs, prevMap>>

\* signalSelf(syscall.SIGTSTP): the signal stops the process, goroutine
\* and all, until it is continued; or syscall.Kill fails and signalSelf
\* panics
signalSelf ==
    /\ pc = "suspend"
    /\ \/ /\ pc' = "resume"
          /\ epoch' = epoch + 1
          /\ UNCHANGED <<exitVars, tick, polled, recv>>
       \/ /\ pc' = "panic"
          /\ Panicked
          /\ UNCHANGED chanVars
    /\ UNCHANGED <<monVars, cfgVars, uiVars, lastEv, prevUI, procfs, prevMap>>

\* termboxInit() of the case of Ctrl-Z
Resume ==
    /\ pc = "resume"
    /\ termboxInit("draw")
    /\ UNCHANGED <<monVars, cfgVars, uiVars, lastEv, prevUI, procfs, prevMap, chanVars>>

NextMain ==
    \/ StartMain
    \/ Draw
    \/ Ticker
    \/ PollEvent
    \/ MainTick
    \/ MainKeyDown
    \/ MainKeyUp
    \/ MainKeyCtrlD
    \/ MainKeyCtrlU
    \/ MainKeyV
    \/ MainKeyQ
    \/ MainResize
    \/ MainOther
    \/ MainKeyCtrlZ
    \/ signalSelf
    \/ Resume

SpecMain == Init /\ [][NextMain]_vars

(* Process.parseStatFile on the lines of /proc/<pid>/stat the kernel       *)
(* writes for a process, whatever its comm is.                             *)

\* strconv.FormatUint(n, 10)
RECURSIVE FormatUint(_)
FormatUint(n) ==
    IF n < 10 THEN <<Ch.d0 + n>> ELSE FormatUint(n \div 10) \o <<Ch.d0 + (n % 10)>>

RECURSIVE Join(_, _)
Join(fields, sep) ==
    IF fields = << >> THEN << >>
    ELSE IF Len(fields) = 1 THEN fields[1]
    ELSE fields[1] \o <<sep>> \o Join(Tail(fields), sep)

\* "weird (name) with spaces"
WeirdComm ==
    <<119, 101, 105, 114, 100, 32, 40, 110, 97, 109, 101, 41, 32,
      119, 105, 116, 104, 32, 115, 112, 97, 99, 101, 115>>

\* the comms of the lines: "a", "a b", "(a)", "a) (b", ") 1 2", "" and
\* the weird one
StatComms ==
    {<<Ch.a>>, <<Ch.a, Ch.sp, Ch.b>>, <<Ch.lparen, Ch.a, Ch.rparen>>,
     <<Ch.a, Ch.rparen, Ch.sp, Ch.lparen, Ch.b>>,
     <<Ch.rparen, Ch.sp, Ch.d1, Ch.sp, Ch.d2>>, << >>, WeirdComm}

\* The line the kernel writes for the process the reading r describes:
\* "pid (comm) state ppid pgrp ...", 50 values after the comm, the line ended by a
\* newline.
StatLine(pid, r) ==
    FormatUint(pid) \o <<Ch.sp, Ch.lparen>> \o r.Comm \o <<Ch.rparen, Ch.sp>>
    \o Join([f \in 1..50 |->
                CASE f - 1 = StatField.State -> <<r.State>>
                  [] f - 1 = StatField.Ppid  -> FormatUint(r.Ppid)
                  [] f - 1 = StatField.Pgrp  -> FormatUint(r.Pgrp)
                  [] f - 1 = StatField.Utime -> FormatUint(r.Utime)
                  [] f - 1 = StatField.Stime -> FormatUint(r.Stime)
                  [] f - 1 = StatField.RSS   -> FormatUint(r.RSS)
                  [] OTHER                   -> <<Ch.d0>>], Ch.sp)
    \o <<Ch.nl>>

\* the processes whose lines are parsed
StatReadings ==
    {Reading("ok", <<Ch.a>>, st, ppid, pgrp, ut, stm, rss, comm, << >>) :
        st \in {St.S, St.Z}, ppid \in {0, 1}, pgrp \in {0, 12}, ut \in {0, 3},
        stm \in {0, MaxJiffy}, rss \in {0, 10}, comm \in StatComms}

\* /proc holds one process, none is read yet; procfs holds what the
\* kernel knows of the process, and the line it writes for it
InitStat ==
    /\ List = << >>
    /\ Map = << >>
    /\ heap = << >>
    /\ CPUTimeTotal = 0
    /\ CPUTimeDiff = 0
    /\ prevMap = << >>
    /\ InitUI
    /\ InitDriver
    /\ InitFlags
    /\ pc = "start"
    /\ \E r \in StatReadings : procfs = <<[sent |-> r, line |-> StatLine(InitPid, r)]>>

\* p.parseStatFile() of a Process made anew, as NewProcess calls it
ParseStat ==
    /\ pc = "start"
    /\ pc' = "parsed"
    /\ heap' = <<parseStatFile(ZeroProcess(InitPid),
                                ReadStatLine(procfs[1].sent, procfs[1].line)).p>>
    /\ UNCHANGED <<List, Map, CPUTimeTotal, CPUTimeDiff, cfgVars, uiVars, lastEv, prevUI,
                   procfs, prevMap, drvVars>>

SpecStat == InitStat /\ [][ParseStat]_vars

(* Monitor.Update called again and again on processes that sleep, run or   *)
(* wait for the disk, and whose counters advance, stand still or fall.     *)

StateReadings(pid) ==
    {NoReading("absent")}
    \cup {[PlainReading(pid) EXCEPT !.State = st, !.Utime = u, !.Stime = s] :
             st \in {St.S, St.R, St.D}, u \in 0..MaxJiffy, s \in 0..MaxJiffy}

\* a process that sleeps, and uses the processor now and then
SleeperReadings(pid) ==
    {NoReading("absent"), PlainReading(pid), [PlainReading(pid) EXCEPT !.Utime = MaxJiffy]}

InitState ==
    /\ InitMonitor
    /\ InitUI
    /\ InitDriver
    /\ InitFlags
    /\ pc = "start"

UpdateState ==
    /\ pc = "start"
    /\ \E r1 \in StateReadings(1), r2 \in SleeperReadings(2) :
           Update(StatOk(0), <<r1, r2>>, "start")
    /\ UNCHANGED <<chanVars, cfgVars, uiVars, lastEv, prevUI>>

SpecState == InitState /\ [][UpdateState]_vars

(* Monitor.Update called again and again on a process that calls exec,    *)
(* becomes a zombie, or whose PID is taken over by a kernel thread: its    *)
(* comm, cmdline, state and process group change between the ticks, and   *)
(* its files may fail to be read; a second process comes and goes.         *)

ExecReadings ==
    {NoReading("absent"), NoReading("staterr"), NoReading("readerr")}
    \cup {Reading("ok", <<Ch.a>>, st, 0, pgrp, 0, 0, 1, comm, cmdline) :
             st \in {St.S, St.Z}, pgrp \in {0, 1}, comm \in {<<Ch.a>>, <<Ch.b>>},
             cmdline \in {<<Ch.slash, Ch.a>>, <<Ch.slash, Ch.c, Ch.nul, Ch.minus, Ch.d1>>}}

InitExec ==
    /\ InitMonitor
    /\ InitUI
    /\ InitDriver
    /\ sortFlag = CPUPercentColumn
    /\ treeFlag = FALSE
    /\ kernelFlag \in BOOLEAN
    /\ verboseFlag = FALSE
    /\ delayFlag = defaultDelay
    /\ pidsFlag = << >>
    /\ usersFlag = << >>
    /\ PidWhitelist = pidsOf(pidsFlag)
    /\ UserWhitelist = usersOf(usersFlag)
    /\ InitCache
    /\ pc = "start"

UpdateExec ==
    /\ pc = "start"
    /\ \E r1 \in ExecReadings, r2 \in {NoReading("absent"), PlainReading(2)} :
           Update(StatOk(0), <<r1, r2>>, "start")
    /\ UNCHANGED <<chanVars, cfgVars, uiVars, lastEv, prevUI>>

SpecExec == InitExec /\ [][UpdateExec]_vars

(* main in tree mode with a PID allow-list (-p) that names init, kthreadd  *)
(* or both, on the forests of SpecForest.                                  *)

InitAllow ==
    /\ InitMonitor
    /\ InitUI
    /\ InitDriver
    /\ sortFlag = CPUPercentColumn
    /\ treeFlag = TRUE
    /\ kernelFlag \in BOOLEAN
    /\ verboseFlag = FALSE
    /\ delayFlag = defaultDelay
    /\ pidsFlag \in {<<Ch.d1>>, <<Ch.d2>>, <<Ch.d1, Ch.comma, Ch.d2>>}
    /\ usersFlag = << >>
    /\ PidWhitelist = pidsOf(pidsFlag)
    /\ UserWhitelist = usersOf(usersFlag)
    /\ InitCache
    /\ pc = "start"

SpecAllow == InitAllow /\ [][NextForest]_vars

(* UserByUID called again and again, for any UID, while the user database *)
(* of the system changes.                                                  *)

NumUids == 2
MaxLookups == 4

Uids == 0..(NumUids - 1)

\* what user.LookupId can return: a user, or an error (no such user)
LookupResults ==
    {[err |-> TRUE, user |-> << >>]}
    \cup {[err |-> FALSE, user |-> u] : u \in {<<Ch.a>>, <<Ch.b>>}}

\* a call of UserByUID: sys tells whether it called user.LookupId
Lookup(uid, sys, res) == [uid |-> uid, sys |-> sys, res |-> res]

\* UserByUID after user.LookupId has returned res
UserByUIDAfterLookup(uid, res) ==
    /\ users' = IF res.err THEN users
                ELSE [u \in DOMAIN users \cup {uid} |-> IF u = uid THEN res.user ELSE users[u]]
    /\ lookups' = Append(lookups, Lookup(uid, TRUE, res))

\* A faulty UserByUID, which does not look into the cache.
UserByUIDUncached ==
    /\ Len(lookups) < MaxLookups
    /\ \E uid \in Uids : \E res \in LookupResults : UserByUIDAfterLookup(uid, res)
    /\ UNCHANGED <<monVars, uiVars, pc, lastEv, prevUI, procfs, prevMap, drvVars,
                   sortFlag, treeFlag, kernelFlag, verboseFlag, PidWhitelist, UserWhitelist,
                   delayFlag, pidsFlag, usersFlag>>

UserByUID ==
    /\ Len(lookups) < MaxLookups
    /\ \E uid \in Uids :
           IF uid \in DOMAIN users
           THEN /\ lookups' = Append(lookups,
                                    Lookup(uid, FALSE, [err |-> FALSE, user |-> users[uid]]))
                /\ UNCHANGED users
           ELSE \E res \in LookupResults : UserByUIDAfterLookup(uid, res)
    /\ UNCHANGED <<monVars, uiVars, pc, lastEv, prevUI, procfs, prevMap, drvVars,
                   sortFlag, treeFlag, kernelFlag, verboseFlag, PidWhitelist, UserWhitelist,
                   delayFlag, pidsFlag, usersFlag>>

InitLookups ==
    /\ InitMonitor
    /\ InitUI
    /\ InitDriver
    /\ InitFlags
    /\ pc = "start"

SpecCache == InitLookups /\ [][UserByUID]_vars

(* ------------------------------ properties ----------------------------- *)

Min(a, b) == IF a < b THEN a ELSE b
Max(a, b) == IF a > b THEN a ELSE b

\* the call of Update or Draw made last has returned: a panic inside it
\* ends the program
Completed == pc # "panic"

Occurrences(s, x) == Cardinality({i \in DOMAIN s : s[i] = x})

\* the Process the List holds at index i
ListProcess(i) == heap[List[i]]

ListPids == {ListProcess(i).Pid : i \in DOMAIN List}

ListMapSync ==
    /\ Len(List) = Cardinality(DOMAIN Map)
    /\ \A i \in DOMAIN List :
           /\ ListProcess(i).Pid \in DOMAIN Map
           /\ Map[ListProcess(i).Pid] = List[i]
    /\ \A k \in DOMAIN Map : Occurrences(List, Map[k]) = 1

\* C1: at the end of every Update, over snapshots in which processes
\* appear, disappear, fail to refresh and are filtered, the List and the Map
\* have the same size and hold the same records: every element of the List
\* is the Map's value for its own pid, and every value of the Map occurs
\* exactly once in the List.
C1_ListMapSync == Completed => ListMapSync

\* an Update that dropped a PID whose refresh failed and added another PID
C1_Witness ==
    /\ ListMapSync
    /\ \E p \in DOMAIN prevMap \ DOMAIN Map : procfs[p].kind = "staterr"
    /\ DOMAIN Map \ DOMAIN prevMap # {}

\* what the last Update saw of a PID
Listed(pid)    == procfs[pid].kind # "absent"
RefreshOk(pid) == procfs[pid].kind = "ok"
Gone(pid)      == procfs[pid].kind \in {"absent", "staterr", "readerr"}

\* the filter every entry of /proc passes through
PassesFilters(pid) == pidWhitelisted(PidWhitelist, pid)

\* the reads NewProcess makes succeed, and the new Process is one Update shows
Constructs(pid) ==
    /\ RefreshOk(pid)
    /\ procfs[pid].cmdline \/ procfs[pid].Pgrp = 0 \/ procfs[pid].State = St.Z
    /\ kernelFlag \/ procfs[pid].Pgrp # 0

\* C4: the record of a PID is created in the first Update that sees it (it
\* passes the filters and its reads succeed); while the PID is listed,
\* passes the filters and refreshes successfully the Map holds the very same
\* record, updated in place; a record leaves the table only in an Update
\* where its PID is absent from /proc or its refresh fails.
C4_IdentityStable ==
    Completed =>
        \A pid \in DOMAIN procfs :
            /\ (pid \in DOMAIN prevMap /\ RefreshOk(pid) /\ PassesFilters(pid))
                   => (pid \in DOMAIN Map /\ Map[pid] = prevMap[pid]
                       /\ heap[Map[pid]].Alive)
            /\ (pid \in DOMAIN prevMap /\ pid \notin DOMAIN Map) => Gone(pid)
            /\ (pid \notin DOMAIN prevMap /\ PassesFilters(pid) /\ Constructs(pid))
                   => pid \in DOMAIN Map
            /\ (pid \in DOMAIN Map /\ pid \notin DOMAIN prevMap) => Listed(pid)

\* an Update that refreshed one record where it was and dropped another
C4_Witness ==
    /\ \E pid \in DOMAIN prevMap \cap DOMAIN Map :
           RefreshOk(pid) /\ Map[pid] = prevMap[pid]
    /\ \E pid \in DOMAIN prevMap \ DOMAIN Map : Gone(pid)

\* the order Update sorts the List by
ConfiguredOrder == IF treeFlag THEN PidColumn ELSE sortFlag

InConfiguredOrder ==
    \A i, j \in DOMAIN List :
        i < j => ~Less(ConfiguredOrder, ListProcess(j), ListProcess(i))

\* C5: if a PID of the table is no longer listed in /proc, or is listed
\* but its read returns NotFound, then Update completes normally, that PID
\* is in neither the Map nor the List, every other record that refreshed
\* successfully is still in both, and the List is in the configured order.
C5_VanishedPruned ==
    \A pid \in DOMAIN prevMap :
        Gone(pid) =>
            /\ Completed
            /\ pid \notin DOMAIN Map
            /\ pid \notin ListPids
            /\ \A q \in DOMAIN prevMap :
                   RefreshOk(q) => (q \in DOMAIN Map /\ Map[q] \in Range(List))
            /\ InConfiguredOrder

\* tree mode: the parent (PID 4) of a process (PID 3) is gone when its stat
\* file is read, after the child has been read with that parent
C5_Witness ==
    /\ treeFlag
    /\ pc = "panic"
    /\ {1, 3, 4} \subseteq DOMAIN prevMap
    /\ RefreshOk(1) /\ RefreshOk(3)
    /\ procfs[4].kind = "readerr"

\* the record of pid lives through the step: it is in the table before
\* and after, at the same address
Survives(pid) ==
    /\ pid \in DOMAIN Map
    /\ pid \in DOMAIN Map'
    /\ Map'[pid] = Map[pid]

\* the increase of a counter from last to new, when it has not decreased
IncreaseIs(diff, new, last) == new >= last /\ diff = new - last

\* C3: for every PID whose record survives two consecutive Updates, the
\* stored utime and stime do not decrease, and utime_diff and stime_diff are
\* the non-negative increase of their counter since the previous Update (the
\* unsigned subtraction never wraps around), whatever /proc reports.
C3_CountersMonotone ==
    [][\A pid \in DOMAIN Map :
           Survives(pid) =>
               /\ IncreaseIs(heap'[Map'[pid]].UtimeDiff,
                             heap'[Map'[pid]].Utime, heap[Map[pid]].Utime)
               /\ IncreaseIs(heap'[Map'[pid]].StimeDiff,
                             heap'[Map'[pid]].Stime, heap[Map[pid]].Stime)]_vars

\* a record that has survived an Update holds a utime_diff above every
\* value of the counter /proc has reported: the subtraction has wrapped
C3_Witness ==
    \E pid \in DOMAIN Map \cap DOMAIN prevMap :
        /\ Map[pid] = prevMap[pid]
        /\ heap[Map[pid]].UtimeDiff > MaxJiffy

\* the key a sort order compares first
PrimaryKey(by, p) ==
    CASE by = PidColumn                       -> p.Pid
      [] by = UserColumn                      -> p.User
      [] by \in {RSSColumn, MemPercentColumn} -> p.RSS
      [] by = CPUPercentColumn                -> p.UtimeDiff + p.StimeDiff
      [] by = CPUTimeColumn                   -> p.Utime + p.Stime
      [] by = StateColumn                     -> p.State
      [] by = CommandColumn                   -> p.Name

\* C6: for every sort key, after Update in non-tree mode any two records
\* that are equal on the primary key are in the List in ascending PID order,
\* whatever the order of the List was before.
C6_TiesByPid ==
    (Completed /\ ~treeFlag) =>
        \A i, j \in DOMAIN List :
            (i < j /\ PrimaryKey(sortFlag, ListProcess(i)) = PrimaryKey(sortFlag, ListProcess(j)))
                => ListProcess(i).Pid < ListProcess(j).Pid

\* sorted by RSS, two records of equal RSS with the greater PID first
C6_Witness ==
    /\ sortFlag = RSSColumn
    /\ Len(List) = 2
    /\ ListProcess(1).RSS = ListProcess(2).RSS
    /\ ListProcess(1).Pid > ListProcess(2).Pid

\* p may stand before q in the order of a key
KeyInOrder(by, p, q) ==
    CASE by = PidColumn                       -> p.Pid <= q.Pid
      [] by = UserColumn                      -> ~StrLess(q.User, p.User)
      [] by \in {RSSColumn, MemPercentColumn} -> p.RSS >= q.RSS
      [] by = CPUPercentColumn                ->
             p.UtimeDiff + p.StimeDiff >= q.UtimeDiff + q.StimeDiff
      [] by = CPUTimeColumn                   -> p.Utime + p.Stime >= q.Utime + q.Stime
      [] by = StateColumn                     -> p.State <= q.State
      [] by = CommandColumn                   -> ~StrLess(q.Name, p.Name)

\* the PIDs whose records the last Update kept or created
Survivors == {pid \in DOMAIN procfs : RefreshOk(pid)}

\* C7: after Update in non-tree mode the List is a permutation of the
\* surviving records in the order of the configured key: pid ascending,
\* username ascending, rss descending (also for %MEM), utime_diff +
\* stime_diff descending, utime + stime descending, state byte ascending,
\* name ascending.
C7_SortedByKey ==
    (Completed /\ ~treeFlag) =>
        /\ ListPids = Survivors
        /\ Len(List) = Cardinality(Survivors)
        /\ \A i, j \in DOMAIN List :
               i < j => KeyInOrder(sortFlag, ListProcess(i), ListProcess(j))

\* sorted by %CPU, a record whose utime_diff has wrapped around stands
\* behind a record of a smaller utime_diff + stime_diff
C7_Witness ==
    /\ sortFlag = CPUPercentColumn
    /\ Len(List) = 2
    /\ ListProcess(2).UtimeDiff > MaxJiffy
    /\ ListProcess(1).UtimeDiff + ListProcess(1).StimeDiff
           < ListProcess(2).UtimeDiff + ListProcess(2).StimeDiff

\* V, the rows of processes the terminal has room for, and visible_count
V == numProcessesOnScreen(height)

visibleCount(n, v) == Min(n, v)

\* invariant I2 of a view over a List of n processes and v rows
ViewportValid(u, n, v) ==
    /\ u.start + visibleCount(n, v) <= Max(visibleCount(n, v), n)
    /\ u.selected < visibleCount(n, v)

\* Draw has returned and main waits for the next event
Rendered == pc = "select"

\* C2: from the valid viewport jtop starts with, for any interleaving of
\* the keys Down, Up, Ctrl-D and Ctrl-U, Resize events to any height and
\* ticks that grow or shrink the List, after each event and the render that
\* follows it start + visible_count <= max(visible_count, |list|) and
\* selected < visible_count, visible_count being min(|list|, height -
\* headerRows).
C2_ViewportValid ==
    Rendered => ViewportValid(View(start, selected), Len(List), V)

\* the terminal has grown from one row of processes to three while the last
\* of three processes was at the top: the render has left start at 2
C2_Witness ==
    /\ Rendered
    /\ Len(List) = 3
    /\ V = 3
    /\ start = 2

\* C8: on every render, a selected index that is not inside the on-screen
\* slice (selected >= end - start) is set to max(0, end - start - 1); after
\* every render 0 <= selected, and selected < the number of rows on the
\* screen whenever a row is shown; so it is after a Resize that shrinks the
\* terminal, for any value of start.
C8_SelectedOnScreen ==
    Rendered =>
        /\ prevUI.selected >= Len(screen) => selected = Max(0, Len(screen) - 1)
        /\ 0 <= selected
        /\ Len(screen) >= 1 => selected < Len(screen)

\* the terminal has shrunk to one row of processes: the render shows the
\* row at start = 1 and leaves selected at 1, below the only row
C8_Witness ==
    /\ Rendered
    /\ start = 1
    /\ Len(screen) = 1
    /\ selected = 1

\* C9: on every render, if start + V exceeds N (processes died or the
\* terminal grew) start is decreased by the excess and not below 0; after
\* every render start >= 0 and either start = 0 or start + V <= N, also
\* when N has dropped to V or below.
C9_StartClamped ==
    Rendered =>
        /\ prevUI.start + V > Len(List)
               => start = Max(0, prevUI.start - (prevUI.start + V - Len(List)))
        /\ start >= 0
        /\ start = 0 \/ start + V <= Len(List)

\* a tick has left two of three processes while the last one was at the
\* top of a terminal with two rows of processes: the render has left start
\* at 1 and shows one row
C9_Witness ==
    /\ Rendered
    /\ Len(List) = 2
    /\ V = 2
    /\ start = 1
    /\ Len(screen) = 1

\* the Down key has been handled and the render has not yet followed
AfterDown == pc = "draw" /\ lastEv = "Down"

\* the transitions of the Down key
DownScrolls(u, n, v) == u.selected = visibleCount(n, v) - 1 /\ n - u.start > v
DownMoves(u, n, v)   == u.selected < visibleCount(n, v) - 1

\* C10: from any valid viewport state, a Down event increments start by
\* one (selected unchanged) exactly when selected = visible_count - 1 and
\* N - start > V, increments selected by one (start unchanged) exactly when
\* selected < visible_count - 1, and changes nothing otherwise; Down on the
\* last process of the list changes nothing.
C10_DownTransitions ==
    (AfterDown /\ ViewportValid(prevUI, Len(List), V)) =>
        View(start, selected) =
            IF DownScrolls(prevUI, Len(List), V)
            THEN View(prevUI.start + 1, prevUI.selected)
            ELSE IF DownMoves(prevUI, Len(List), V)
            THEN View(prevUI.start, prevUI.selected + 1)
            ELSE prevUI

\* Down on the bottom row has scrolled the list up to its last process
C10_Witness ==
    /\ AfterDown
    /\ ViewportValid(prevUI, Len(List), V)
    /\ start = prevUI.start + 1
    /\ start + V = Len(List)

\* a valid viewport state: I2, and the indices are not negative
ValidState(u, n, v) ==
    /\ u.start >= 0
    /\ u.selected >= 0
    /\ ViewportValid(u, n, v)

\* the Up key has been handled and the render has not yet followed
AfterUp == pc = "draw" /\ lastEv = "Up"

\* the transitions of the Up key
UpScrolls(u) == u.selected = 0 /\ u.start > 0
UpMoves(u)   == u.selected > 0

\* C11: from any valid viewport state, an Up event decrements start by one
\* (selected unchanged) exactly when selected = 0 and start > 0, decrements
\* selected by one (start unchanged) exactly when selected > 0, and changes
\* nothing when start = 0 and selected = 0; neither start nor selected
\* becomes negative through Up.
C11_UpTransitions ==
    (AfterUp /\ ValidState(prevUI, Len(List), V)) =>
        /\ View(start, selected) =
               IF UpScrolls(prevUI)
               THEN View(prevUI.start - 1, prevUI.selected)
               ELSE IF UpMoves(prevUI)
               THEN View(prevUI.start, prevUI.selected - 1)
               ELSE prevUI
        /\ start >= 0
        /\ selected >= 0

\* Up on the top row has scrolled the list down to its first process
C11_Witness ==
    /\ AfterUp
    /\ ValidState(prevUI, Len(List), V)
    /\ prevUI.selected = 0
    /\ prevUI.start = 1
    /\ start = 0

\* C12: from any valid viewport state in which the selected row is not the
\* last visible row (selected < visible_count - 1), Down followed at once
\* by Up leaves (start, selected) unchanged; so it does when the render of
\* the main loop comes between the two keys.
C12_DownThenUp ==
    (AfterDown /\ ValidState(prevUI, Len(List), V)
               /\ prevUI.selected < visibleCount(Len(List), V) - 1) =>
        /\ HandleUp(View(start, selected)) = prevUI
        /\ HandleUp(visibleProcesses(View(start, selected), List, Map, heap,
                                     height).view) = prevUI

\* Down has moved the selection from the first row of a scrolled list to
\* the second, from where Up leads back
C12_Witness ==
    /\ AfterDown
    /\ ValidState(prevUI, Len(List), V)
    /\ prevUI.selected < visibleCount(Len(List), V) - 1
    /\ prevUI.start = 1
    /\ selected = 1
    /\ HandleUp(View(start, selected)) = prevUI

\* C13: when the process list is empty, a render emits only the header row
\* and a Down event is a no-op: start and selected are the same before and
\* after every render and every Down, and they are valid indices that are
\* not negative.
C13_EmptyList ==
    Len(List) = 0 =>
        /\ Completed
        /\ Rendered => screen = << >>
        /\ (Rendered \/ AfterDown) =>
               /\ View(start, selected) = prevUI
               /\ start >= 0
               /\ selected >= 0

\* the first render of an empty list has left selected at -1
C13_Witness ==
    /\ Rendered
    /\ Len(List) = 0
    /\ screen = << >>
    /\ prevUI = View(0, 0)
    /\ View(start, selected) = View(0, -1)

\* Ctrl-D, or Ctrl-U, has been handled and the render has not yet followed
AfterCtrlD == pc = "draw" /\ lastEv = "CtrlD"
AfterCtrlU == pc = "draw" /\ lastEv = "CtrlU"

\* the Down transition applied k times in sequence, and the Up transition
DownRun(u, n, h, k) ==
    LET run[i \in 0..Max(0, k)] == IF i = 0 THEN u ELSE HandleDown(run[i - 1], n, h)
    IN  run[Max(0, k)]

UpRun(u, k) ==
    LET run[i \in 0..Max(0, k)] == IF i = 0 THEN u ELSE HandleUp(run[i - 1])
    IN  run[Max(0, k)]

\* C14: Ctrl-D leaves the (start, selected) that the Down transition
\* applied floor(V / 2) times in sequence leaves, and Ctrl-U the one that Up
\* applied floor(V / 2) times leaves, V being the terminal height less the
\* header rows at the time of the key; with V <= 1 both change nothing.
C14_HalfPage ==
    /\ AfterCtrlD =>
           /\ View(start, selected) = DownRun(prevUI, Len(List), height, V \div 2)
           /\ V <= 1 => View(start, selected) = prevUI
    /\ AfterCtrlU =>
           /\ View(start, selected) = UpRun(prevUI, V \div 2)
           /\ V <= 1 => View(start, selected) = prevUI

\* Ctrl-D with half a page of two rows has moved the selection to the
\* bottom row and then scrolled the list by one
C14_Witness ==
    /\ AfterCtrlD
    /\ V \div 2 = 2
    /\ start = prevUI.start + 1
    /\ selected = prevUI.selected + 1

\* the events of the horizontal offset
OffsetEvents == {"Left", "Right", "ResetOffset"}

\* C15: for any sequence of Left, Right and reset-offset events the
\* horizontal offset is an integer that is not negative: Left decrements it
\* only when it is above 0 and changes nothing at 0, Right increments it by
\* one, and none of these events changes start or selected.
C15_OffsetNonNegative ==
    [][/\ offset' \in Nat
       /\ lastEv' = "Left" => offset' = IF offset > 0 THEN offset - 1 ELSE 0
       /\ lastEv' = "Right" => offset' = offset + 1
       /\ lastEv' \in OffsetEvents => start' = start /\ selected' = selected]_vars

\* Left has taken the offset from 2 to 1 below a scrolled list
C15_Witness ==
    /\ pc = "draw"
    /\ lastEv = "Left"
    /\ offset = 1
    /\ start > 0

\* the PIDs of the rows on the screen, from the top
ScreenPids(scr) == [i \in DOMAIN scr |-> scr[i].Pid]

\* C16: the v key toggles verbose and nothing else: it leaves start,
\* selected, the offset and the Monitor's table as they are; every render
\* shows in the COMMAND cell of a row the name of its record while verbose
\* is off and its full command while verbose is on, and the render after v
\* shows the rows of the processes that were shown before it, so that
\* pressing v twice restores the display.
C16_VerboseToggle ==
    [][/\ lastEv' = "v" =>
              /\ verboseFlag' = ~verboseFlag
              /\ UNCHANGED <<start, selected, offset, List, Map, heap, CPUTimeTotal,
                             CPUTimeDiff, sortFlag, treeFlag, kernelFlag>>
       /\ pc' = "select" =>
              \A i \in DOMAIN screen' :
                  screen'[i].Command =
                      IF verboseFlag'
                      THEN heap'[Map'[screen'[i].Pid]].Command
                      ELSE heap'[Map'[screen'[i].Pid]].Name
       /\ (lastEv = "v" /\ pc' = "select") =>
              ScreenPids(screen') = ScreenPids(screen)]_vars

\* after v, the render shows the full command "/a" of the process "a"
C16_Witness ==
    /\ Rendered
    /\ verboseFlag
    /\ screen # << >>
    /\ screen[1].Command = <<Ch.slash, Ch.a>>
    /\ heap[Map[screen[1].Pid]].Name = <<Ch.a>>

\* The tree the Monitor's table describes: the PID of the parent of the
\* process q, its children, whether it is the last of them, its depth below
\* its root, and its ancestor at depth j.
PpidOf(q) == heap[Map[q]].Ppid

ChildrenOf(q) == {c \in DOMAIN Map : PpidOf(c) = q}

IsLastChildOf(q) == \A c \in ChildrenOf(PpidOf(q)) : c <= q

TreeRoots == {InitPid, KthreaddPid}

RECURSIVE DepthOf(_)
DepthOf(q) == IF q \in TreeRoots THEN 0 ELSE 1 + DepthOf(PpidOf(q))

RECURSIVE AncestorAt(_, _)
AncestorAt(q, j) == IF DepthOf(q) <= j THEN q ELSE AncestorAt(PpidOf(q), j)

\* the subtree of q in depth-first pre-order, the children of a process in
\* ascending order of PID; S is a set of siblings
RECURSIVE PreOrder(_)
RECURSIVE PreOrderAll(_)
PreOrder(q) == <<q>> \o PreOrderAll(ChildrenOf(q))

PreOrderAll(S) ==
    IF S = {} THEN << >>
    ELSE PreOrder(Least(S)) \o PreOrderAll(S \ {Least(S)})

\* the prefix of a process at depth d: no segment for a root; else a segment
\* for each ancestor at the depths 1..d-1 and the end segment of its own
ExpectedPrefix(q) ==
    [j \in 1..DepthOf(q) |->
        IF j = DepthOf(q)
        THEN (IF IsLastChildOf(q) THEN lastChildEnd ELSE defaultEnd)
        ELSE IF IsLastChildOf(AncestorAt(q, j)) THEN lastChildSegment
        ELSE defaultSegment]

\* the rows of the tree view: the subtree of init, then that of kthreadd
\* when kernel threads are shown
ExpectedTree ==
    PreOrder(InitPid) \o (IF kernelFlag THEN PreOrder(KthreaddPid) ELSE << >>)

\* C17: TreeList from a root returns the subtree of that root in
\* depth-first pre-order, the children in ascending order of PID; the root
\* has an empty prefix and a node at depth d >= 1 a prefix of d segments: one
\* for each ancestor at the depths 1..d-1 (a bar if that ancestor is not a
\* last child, blank if it is) and then the end segment its own last-child
\* flag selects.  So it is for the subtree of PID 1 and for that of PID 2.
C17_TreeListPrefixes ==
    (Rendered /\ treeFlag) =>
        /\ ScreenPids(screen) = ExpectedTree
        /\ \A i \in DOMAIN screen : screen[i].Prefix = ExpectedPrefix(screen[i].Pid)

\* the process 4 is a child of the kernel thread 3, at depth 2 below
\* kthreadd, and its row has a prefix of three segments
C17_Witness ==
    /\ Rendered
    /\ kernelFlag
    /\ ScreenPids(screen) = <<InitPid, KthreaddPid, 3, 4>>
    /\ PpidOf(4) = 3
    /\ PpidOf(3) = KthreaddPid
    /\ screen[4].Prefix = <<defaultSegment, lastChildSegment, lastChildEnd>>

\* the first call of Monitor.Update has returned and no event has followed
FirstUpdateDone == pc \in {"draw", "select"} /\ lastEv = "none"

\* C18: after the first call of Monitor.Update cpu_time_diff is 0, whatever
\* total /proc/stat reports: there is no previous sample to take the
\* difference with.
C18_FirstDiffZero == FirstUpdateDone => CPUTimeDiff = 0

\* the first Update has read a total of 5 and left a difference of 5
C18_Witness ==
    /\ FirstUpdateDone
    /\ CPUTimeTotal = 5
    /\ CPUTimeDiff = 5

\* C19: in every Update after the first, cpu_time_diff is the new
\* cpu_time_total less the previous one when the total has advanced and 0
\* when the new total is not above the previous one: the subtraction
\* saturates and never wraps around.
C19_DiffSaturates ==
    [][(lastEv' = "Tick" /\ pc' # "panic") =>
           CPUTimeDiff' = IF CPUTimeTotal' > CPUTimeTotal
                          THEN CPUTimeTotal' - CPUTimeTotal
                          ELSE 0]_vars

\* a tick has read a total below the previous one: the difference left is
\* above the total itself
C19_Witness ==
    /\ lastEv = "Tick"
    /\ CPUTimeTotal = 3
    /\ CPUTimeDiff = UintMod - 2

\* C20: for the first sample of a record (the Update in which its PID is
\* first seen) utime_diff and stime_diff are 0 whatever cumulative utime and
\* stime /proc reports; they are 0 as well after a refresh in which the
\* counter has not advanced.
C20_FirstSampleZero ==
    [][\A pid \in DOMAIN Map' :
           /\ pid \notin DOMAIN Map =>
                  /\ heap'[Map'[pid]].UtimeDiff = 0
                  /\ heap'[Map'[pid]].StimeDiff = 0
           /\ Survives(pid) =>
                  /\ heap'[Map'[pid]].Utime <= heap[Map[pid]].Utime
                         => heap'[Map'[pid]].UtimeDiff = 0
                  /\ heap'[Map'[pid]].Stime <= heap[Map[pid]].Stime
                         => heap'[Map'[pid]].StimeDiff = 0]_vars

\* the record of a PID the last Update has seen for the first time, with a
\* utime above 0, holds that utime as its utime_diff
C20_Witness ==
    \E pid \in DOMAIN Map \ DOMAIN prevMap :
        /\ heap[Map[pid]].Utime = MaxJiffy
        /\ heap[Map[pid]].UtimeDiff = MaxJiffy
        /\ heap[Map[pid]].StimeDiff = 0

\* the record of the process a row of the screen shows
RowProcess(row) == heap[Map[row.Pid]]

\* C21: the %CPU cell of a row is (utime_diff + stime_diff) / cpu_time_diff
\* x 100 x num_cpus, printed with one decimal, and whenever cpu_time_diff
\* is 0 the cell of every row is 0.0: no division by zero reaches the
\* output.
C21_CPUPercentCell ==
    Rendered =>
        \A i \in DOMAIN screen :
            screen[i].CPU =
                IF CPUTimeDiff = 0 THEN Printed(0)
                ELSE Printed(Tenths(100 * NumCPUs * (RowProcess(screen[i]).UtimeDiff
                                                       + RowProcess(screen[i]).StimeDiff),
                                    CPUTimeDiff))

\* a tick has read the total of the tick before it while the process used
\* a jiffy of user time: the cell shows NaN
C21_Witness ==
    /\ Rendered
    /\ CPUTimeDiff = 0
    /\ CPUTimeTotal > 0
    /\ screen # << >>
    /\ RowProcess(screen[1]).UtimeDiff = 1
    /\ screen[1].CPU = PrintedNaN

\* the last Update has met pid for the first time: /proc lists it, it passes
\* the allow-list and the Map did not hold it
NewlyDiscovered(pid) ==
    /\ Listed(pid)
    /\ PassesFilters(pid)
    /\ pid \notin DOMAIN prevMap

\* the reads NewProcess makes succeed: stat, and cmdline unless the process
\* is a kernel thread or a zombie
Builds(pid) ==
    /\ RefreshOk(pid)
    /\ procfs[pid].cmdline \/ procfs[pid].Pgrp = 0 \/ procfs[pid].State = St.Z

\* pid is in the List, once, and in the Map; or in neither
Inserted(pid) == pid \in DOMAIN Map /\ Occurrences(List, Map[pid]) = 1
Left(pid)     == pid \notin DOMAIN Map /\ pid \notin ListPids

\* C22: while kernel threads are not shown, a newly discovered PID whose
\* record is a kernel thread (pgrp = 0) is inserted into neither the List
\* nor the Map; while they are shown it is inserted into both; a newly
\* discovered process that is no kernel thread and constructs is always
\* inserted.
C22_KernelThreadFilter ==
    \A pid \in DOMAIN procfs :
        (NewlyDiscovered(pid) /\ Builds(pid)) =>
            IF procfs[pid].Pgrp = 0 /\ ~kernelFlag THEN Left(pid) ELSE Inserted(pid)

\* kernel threads are not shown: the last Update has left the kernel thread
\* 2 out and inserted the process 1
C22_Witness ==
    /\ ~kernelFlag
    /\ DOMAIN procfs = 1..2
    /\ NewlyDiscovered(1) /\ Builds(1) /\ procfs[1].Pgrp # 0 /\ Inserted(1)
    /\ NewlyDiscovered(2) /\ Builds(2) /\ procfs[2].Pgrp = 0 /\ Left(2)

\* C23: with an allow-list of PIDs that is not empty, after every Update
\* every PID in the List and in the Map belongs to the allow-list, and the
\* listed PIDs outside it are skipped without being read (a stat file that
\* does not parse ends the program only if its PID passes the filter); with
\* an empty allow-list no PID is excluded by this filter.
C23_PidAllowList ==
    /\ PidWhitelist # {} =>
           /\ DOMAIN Map \subseteq PidWhitelist
           /\ ListPids \subseteq PidWhitelist
           /\ ~Completed =>
                  \E pid \in DOMAIN procfs \cap PidWhitelist :
                      procfs[pid].kind = "malformed"
    /\ PidWhitelist = {} =>
           \A pid \in DOMAIN procfs :
               (Completed /\ Builds(pid) /\ procfs[pid].Pgrp # 0) => Inserted(pid)
    /\ \A pid \in DOMAIN procfs :
           (Completed /\ Builds(pid) /\ procfs[pid].Pgrp # 0 /\ pid \in PidWhitelist)
               => Inserted(pid)

\* only PID 1 is allowed: the last Update has inserted it and has passed
\* over PID 2, whose stat file does not parse
C23_Witness ==
    /\ PidWhitelist = {InitPid}
    /\ UserWhitelist = {}
    /\ Completed
    /\ DOMAIN procfs = 1..2
    /\ procfs[2].kind = "malformed"
    /\ DOMAIN Map = {InitPid}
    /\ ListPids = {InitPid}

\* C25: a /proc/<pid>/stat that does not parse (too few fields, a numeric
\* field that is no number, missing parentheses), read during Update, never
\* ends the program: the error is swallowed, that process is treated as
\* dead (not inserted, or pruned if already present), and Update completes
\* for all other PIDs.
C25_MalformedSwallowed ==
    /\ Completed
    /\ \A pid \in DOMAIN procfs :
           /\ (PassesFilters(pid) /\ procfs[pid].kind = "malformed") => Left(pid)
           /\ (PassesFilters(pid) /\ Builds(pid) /\ procfs[pid].Pgrp # 0) => Inserted(pid)

\* the stat file of PID 2, which the Map holds, has not parsed: the panic of
\* MustParseUint64 has ended the program
C25_Witness ==
    /\ pc = "panic"
    /\ DOMAIN procfs = 1..2
    /\ procfs[1].kind = "ok"
    /\ procfs[2].kind = "malformed"
    /\ PassesFilters(2)
    /\ 2 \in DOMAIN Map

FlagsValid == validFlags(delayFlag, pidsFlag, sortFlag, usersFlag)

\* the terminal has been initialised, now or before
Initialised == \E i \in DOMAIN effects : effects[i] = "Init"

\* nothing is initialised or updated before the flags are validated, and
\* with an invalid flag never
ValidatedFirst ==
    /\ pc = "flags" => term = "none" /\ effects = << >> /\ procfs = << >>
    /\ (term # "none" \/ Initialised \/ procfs # << >>) => FlagsValid

\* with an invalid flag the program ends with exit code 1, a message on
\* stderr and the usage on the stream, the terminal untouched
UsageExit(stream) ==
    (~FlagsValid /\ pc # "flags") =>
        /\ pc = "exit"
        /\ exitCode = <<1>>
        /\ term = "none"
        /\ effects = <<"Stderr", stream>>

\* the terminal that cannot be initialised ends the program with exit code 2
InitFailureExit ==
    (FlagsValid /\ pc = "exit" /\ ~Initialised) =>
        exitCode = <<2>> /\ effects = <<"Stderr">>

\* C29: the validation of the flags (delay > 0, every PID a non-negative
\* integer, the sort column valid, every user known) completes before the
\* terminal is initialised and before the first Update; an invalid value
\* ends the program with exit code 1 and the usage on stderr, the terminal
\* never initialised; a terminal that cannot be initialised ends it with
\* exit code 2.
C29_FlagValidation ==
    /\ ValidatedFirst
    /\ UsageExit("UsageStderr")
    /\ InitFailureExit

\* -p "1," does not parse: exit code 1, the message on stderr, the usage
\* on stdout
C29_Witness ==
    /\ pidsFlag = <<Ch.d1, Ch.comma>>
    /\ validDelay(delayFlag) /\ validSort(sortFlag) /\ validUsers(usersFlag)
    /\ pc = "exit"
    /\ exitCode = <<1>>
    /\ term = "none"
    /\ effects = <<"Stderr", "UsageStdout">>

\* the names of the sort orders, and the column each of them stands for
SortNames == {"pid", "user", "rss", "mem", "cpu", "time", "command"}

ColumnOf(name) ==
    CASE name = "pid"     -> PidColumn
      [] name = "user"    -> UserColumn
      [] name = "rss"     -> RSSColumn
      [] name = "mem"     -> MemPercentColumn
      [] name = "cpu"     -> CPUPercentColumn
      [] name = "time"    -> CPUTimeColumn
      [] name = "command" -> CommandColumn
      [] OTHER            -> name

\* C30: the sort option accepts exactly pid, user, rss, mem, cpu, time and
\* command: with the other flags valid each of them passes the validation,
\* and the List every Update leaves is in the order of its column; any
\* other value ends the program with exit code 1 before anything else.
C30_SortOption ==
    /\ (sortFlag \in SortNames /\ validDelay(delayFlag) /\ validPids(pidsFlag)
            /\ validUsers(usersFlag)) =>
           /\ pc \in {"flags", "exit"} => exitCode # <<1>>
           /\ \A i, j \in DOMAIN List :
                  i < j => KeyInOrder(ColumnOf(sortFlag), ListProcess(i), ListProcess(j))
    /\ sortFlag \notin SortNames =>
           /\ pc \in {"flags", "exit"}
           /\ pc = "exit" => exitCode = <<1>>

\* --sort cpu with every other flag valid: exit code 1, the terminal never
\* initialised
C30_Witness ==
    /\ sortFlag = "cpu"
    /\ validDelay(delayFlag) /\ validPids(pidsFlag) /\ validUsers(usersFlag)
    /\ pc = "exit"
    /\ exitCode = <<1>>
    /\ term = "none"

\* the column titles are what the validation accepts
SortTitlesAccepted ==
    /\ (pc \notin {"flags", "exit"}) => sortFlag \in Range(Columns)
    /\ (validSort(sortFlag) /\ validDelay(delayFlag) /\ validPids(pidsFlag)
            /\ validUsers(usersFlag)) => exitCode # <<1>>

\* the step in which the driver takes the event k from the goroutine
Receives(k) ==
    /\ pc = "select"
    /\ \E e \in 0..MaxSuspends : polled = <<[key |-> k, epoch |-> e]>>
    /\ polled' = << >>

\* C27: when the driver receives q (or Ctrl-C) it leaves the loop at once:
\* that step updates nothing, handles nothing else and draws nothing, it
\* closes the terminal and ends the process with exit code 0, a tick
\* pending or not; and no step follows the end of the process.
C27_QuitImmediately ==
    [][/\ Receives("q") =>
              /\ pc' = "exit"
              /\ term' = "closed"
              /\ exitCode' = <<0>>
              /\ effects' = Append(effects, "Close")
              /\ UNCHANGED <<monVars, cfgVars, uiVars, procfs>>
       /\ exitCode = << >>]_vars

\* q has been received with a tick pending: the process has ended with
\* exit code 0 and the tick is still in the ticker's channel
C27_Witness ==
    /\ pc = "exit"
    /\ lastEv = "q"
    /\ recv # << >>
    /\ tick
    /\ term = "closed"
    /\ exitCode = <<0>>

\* the terminal is closed when the process does its i-th effect: the last
\* thing done to the terminal before it was to close it
ClosedBefore(i) ==
    \E j \in 1..(i - 1) :
        /\ effects[j] = "Close"
        /\ \A k \in (j + 1)..(i - 1) : effects[k] # "Init"

\* C26: on every path by which the program ends after the terminal has
\* been initialised (the quit key, a panic inside Monitor.Update or Draw, a
\* failure of the suspension or of the resumption), the terminal is closed
\* before the process ends and before any diagnostic is written.
C26_TeardownFirst ==
    /\ (Initialised /\ exitCode # << >>) => term = "closed"
    /\ \A i \in DOMAIN effects :
           (effects[i] = "Stderr" /\ \E j \in 1..(i - 1) : effects[j] = "Init")
               => ClosedBefore(i)

\* a tick has met a stat file that does not parse: Update has panicked,
\* the terminal was closed, then the panic written, exit code 2
C26_Witness ==
    /\ pc = "panic"
    /\ lastEv = "Tick"
    /\ \E pid \in DOMAIN procfs : procfs[pid].kind = "malformed"
    /\ term = "closed"
    /\ effects = <<"Init", "Close", "Stderr">>
    /\ exitCode = <<2>>

\* the other ends of the program: q, a panic in Draw, syscall.Kill failing,
\* termbox.Init failing after the process was continued
QuitEnd == pc = "exit" /\ lastEv = "q" /\ exitCode = <<0>>
DrawEnd == pc = "panic" /\ lastEv = "Draw" /\ exitCode = <<2>>
SuspendEnd ==
    pc = "panic" /\ lastEv = "CtrlZ" /\ effects = <<"Init", "Close", "Close", "Stderr">>
ResumeEnd ==
    pc = "exit" /\ lastEv = "CtrlZ" /\ epoch = 1 /\ effects = <<"Init", "Close", "Stderr">>

\* C28: after a suspension by Ctrl-Z and the resumption, the driver handles
\* no event the terminal produced before the suspension: every event it
\* receives was polled after the last resumption, however the goroutine
\* and the driver interleave.
C28_NoStaleEvent ==
    recv # << >> => recv[1].epoch = recv[1].at

\* the goroutine polled the key Down between the driver's termbox.Close()
\* and the stop of the process; the driver has handled it after the
\* resumption
C28_Witness ==
    /\ recv = <<[epoch |-> 0, at |-> 1]>>
    /\ lastEv = "Down"
    /\ epoch = 1
    /\ term = "open"
    /\ pc = "draw"

\* C31: parsing a line of /proc/<pid>/stat recovers the comm as the text
\* between the first '(' and the last ')' of the line, whatever blanks and
\* parentheses the comm holds; the value after the comm is the state byte,
\* and ppid, pgrp, utime, stime and rss are read from their places.
C31_StatRoundTrip ==
    pc = "parsed" =>
        /\ heap[1].Command = procfs[1].sent.Comm
        /\ heap[1].Name = procfs[1].sent.Comm
        /\ heap[1].State = procfs[1].sent.State
        /\ heap[1].Ppid = procfs[1].sent.Ppid
        /\ heap[1].Pgrp = procfs[1].sent.Pgrp
        /\ heap[1].Utime = procfs[1].sent.Utime
        /\ heap[1].Stime = procfs[1].sent.Stime
        /\ heap[1].RSS = procfs[1].sent.RSS

\* the line of the comm "weird (name) with spaces" has been parsed
C31_Witness ==
    /\ pc = "parsed"
    /\ procfs[1].sent.Comm = WeirdComm
    /\ heap[1].Command = WeirdComm
    /\ heap[1].State = St.Z
    /\ heap[1].Pgrp = 12
    /\ heap[1].RSS = 10

\* the Processes of the List whose Ppid is pid, in the order of the List
ListChildren(pid) == SelectSeq(List, LAMBDA c : heap[c].Ppid = pid)

\* C32: in tree mode, after every Update the List is in ascending order of
\* Pid and the links are built anew: the Children of each Process of the
\* List are the Processes of the List whose Ppid is its Pid, in ascending
\* order of Pid and each once, and its Parent is the Process the Map holds
\* for its Ppid, or none; no link of an earlier Update and no link to a
\* Process that was removed is left.
C32_LinksRebuilt ==
    (treeFlag /\ Completed) =>
        /\ \A i, j \in DOMAIN List : i < j => heap[List[i]].Pid < heap[List[j]].Pid
        /\ \A o \in Range(List) :
               /\ heap[o].Children = ListChildren(heap[o].Pid)
               /\ heap[o].Parent =
                      IF heap[o].Ppid \in DOMAIN Map THEN Map[heap[o].Ppid] ELSE Nil
               /\ Range(heap[o].Children) \subseteq Range(List)

\* PID 3 was the child of PID 4; PID 4 has left /proc and its Process was
\* removed, and PID 3 is now a child of init next to PID 2
C32_Witness ==
    /\ treeFlag /\ Completed
    /\ {3, 4} \subseteq DOMAIN prevMap
    /\ 4 \notin DOMAIN Map
    /\ {2, 3} \subseteq DOMAIN Map
    /\ heap[Map[3]].Parent = Map[InitPid]
    /\ heap[Map[InitPid]].Children = <<Map[2], Map[3]>>

\* the Process of pid was read by this Update, and the stat file of the
\* parent it names was not
Orphaned(pid) ==
    /\ pid \in DOMAIN prevMap
    /\ pid \notin {InitPid, KthreaddPid}
    /\ RefreshOk(pid)
    /\ heap[prevMap[pid]].Ppid \in DOMAIN procfs
    /\ Gone(heap[prevMap[pid]].Ppid)

\* C33: in tree mode, when the Ppid of a Process is not a key of the Map
\* and its Pid is neither 1 nor 2, Update does not end the program: it
\* completes, and the Process stays in the List and in the Map.
C33_OrphanKept ==
    \A pid \in DOMAIN procfs :
        (treeFlag /\ Orphaned(pid)) =>
            /\ Completed
            /\ pid \in DOMAIN Map
            /\ pid \in ListPids

\* the read of the stat file of PID 4 fails after PID 3 was read as its
\* child: Update panics and the program ends with exit code 2
C33_Witness ==
    /\ treeFlag
    /\ Orphaned(3)
    /\ heap[prevMap[3]].Ppid = 4
    /\ pc = "panic"
    /\ exitCode = <<2>>

\* the counters of the Process of pid moved in the interval of the Update
\* the step makes
Moved(pid) == heap'[Map'[pid]].UtimeDiff > 0 \/ heap'[Map'[pid]].StimeDiff > 0

\* C34: after the refresh of a Process of the table its State is R when
\* the state byte read is R, or when the byte is S and UtimeDiff > 0 or
\* StimeDiff > 0 in this interval, and the byte read in every other case;
\* after the first sample of a Process the State is the byte read, whatever
\* the counters are; and a State reclassified to R is S again after an
\* Update in which the counters did not move.
C34_StateRule ==
    [][\A pid \in DOMAIN Map' :
          /\ pid \in DOMAIN prevMap' =>
                 heap'[Map'[pid]].State =
                     IF procfs'[pid].State = St.S /\ Moved(pid)
                     THEN St.R ELSE procfs'[pid].State
          /\ pid \notin DOMAIN prevMap' => heap'[Map'[pid]].State = procfs'[pid].State
          /\ (/\ pid \in DOMAIN Map
              /\ heap[Map[pid]].State = St.R
              /\ procfs'[pid].State = St.S
              /\ ~Moved(pid)) => heap'[Map'[pid]].State = St.S]_vars

\* the Process of PID 1, refreshed: the byte read is S, the counter of the
\* user time has moved by one, and the State is R
C34_Witness ==
    /\ InitPid \in DOMAIN prevMap
    /\ InitPid \in DOMAIN Map
    /\ procfs[InitPid].State = St.S
    /\ heap[Map[InitPid]].UtimeDiff = 1
    /\ heap[Map[InitPid]].StimeDiff = 0
    /\ heap[Map[InitPid]].State = St.R

\* the step takes a tick from the channel of the ticker, or an event from
\* the channel of the goroutine
Consumes == (tick /\ ~tick') \/ (polled # << >> /\ polled' = << >>)

\* C35: the driver renders once before each wait on the channels: a tick
\* or an event is consumed only when the last thing the driver did was a
\* render, what follows the reaction is the render (or the end of the
\* program, or the suspension that leads to the render), the driver never
\* waits without having rendered, and the first render comes after the
\* first Update and shows its table.
C35_RenderBetween ==
    [][/\ Consumes => (pc = "select" /\ lastEv = "Draw")
       /\ Consumes => (pc' \in {"draw", "suspend", "exit", "panic"} /\ lastEv' # "Draw")
       /\ pc' = "select" => lastEv' = "Draw"
       /\ (lastEv' = "Draw" /\ lastEv # "Draw") => pc = "draw"
       /\ (lastEv' = "Draw" /\ lastEv = "none") =>
              /\ procfs # << >>
              /\ List = List'
              /\ pc' = "select" =>
                     \A i \in DOMAIN screen' : screen'[i].Pid = heap'[List[start' + i]].Pid
      ]_vars

\* an event was handled and rendered, and the next tick and the next event
\* wait in their channels
C35_Witness ==
    /\ pc = "select"
    /\ lastEv = "Draw"
    /\ recv # << >>
    /\ tick
    /\ polled # << >>
    /\ screen # << >>

\* the step refreshes the Process the Map holds for pid: Update of the
\* Process returns no error
Refreshes(pid) ==
    /\ pid \in DOMAIN Map
    /\ pid \in DOMAIN Map'
    /\ procfs'[pid].kind = "ok"

\* C36: a successful Update of a Process of the table that was neither a
\* kernel thread nor a zombie at its last sample leaves its Name and its
\* Command as they are, whatever cmdline and the comm of stat hold now;
\* and Update never changes the Pid of a Process.
C36_NameFrame ==
    [][\A pid \in DOMAIN procfs' :
          Refreshes(pid) =>
              /\ Map'[pid] = Map[pid]
              /\ heap'[Map[pid]].Pid = heap[Map[pid]].Pid
              /\ (heap[Map[pid]].Pgrp # 0 /\ heap[Map[pid]].State # St.Z) =>
                     /\ heap'[Map[pid]].Name = heap[Map[pid]].Name
                     /\ heap'[Map[pid]].Command = heap[Map[pid]].Command]_vars

\* the Process of PID 1 was made from the cmdline "/a"; it is a zombie in
\* process group 0 now, and still has the Command of its first sample
C36_Witness ==
    /\ InitPid \in DOMAIN prevMap
    /\ InitPid \in DOMAIN Map
    /\ prevMap[InitPid] = Map[InitPid]
    /\ heap[Map[InitPid]].State = St.Z
    /\ heap[Map[InitPid]].Pgrp = 0
    /\ procfs[InitPid].kind = "ok"
    /\ heap[Map[InitPid]].Command = <<Ch.slash, Ch.a>>
    /\ heap[Map[InitPid]].Name = <<Ch.a>>

\* the calls of UserByUID for uid, by their places in the history
CallsOf(uid) == {i \in DOMAIN lookups : lookups[i].uid = uid}

\* C37: once a UID has been resolved, every later lookup of that UID
\* returns the same user and does not call the lookup of the system again,
\* so there is at most one successful lookup of the system for a UID; a
\* lookup that fails stores nothing in the cache and the next call for
\* that UID calls the system again.
C37_CacheOnce ==
    \A uid \in Uids :
        /\ \A i, j \in CallsOf(uid) :
               (i < j /\ ~lookups[i].res.err) =>
                   (lookups[j].res = lookups[i].res /\ ~lookups[j].sys)
        /\ Cardinality({i \in CallsOf(uid) : lookups[i].sys /\ ~lookups[i].res.err}) <= 1
        /\ \A i, j \in CallsOf(uid) :
               (i < j /\ lookups[i].res.err) => \E k \in CallsOf(uid) : i < k /\ k <= j /\ lookups[k].sys
        /\ uid \in DOMAIN users <=> \E i \in CallsOf(uid) : ~lookups[i].res.err
        /\ uid \in DOMAIN users =>
               \A i \in CallsOf(uid) : ~lookups[i].res.err => lookups[i].res.user = users[uid]

\* the first lookup of UID 0 failed, the second was made again by the
\* system and gave "a", the third came from the cache; UID 1 was looked up
\* in between
C37_Witness ==
    /\ Len(lookups) = 4
    /\ CallsOf(0) = {1, 2, 4}
    /\ lookups[1].res.err /\ lookups[1].sys
    /\ lookups[2].sys /\ lookups[2].res.user = <<Ch.a>>
    /\ ~lookups[4].sys /\ lookups[4].res.user = <<Ch.a>>
    /\ users[0] = <<Ch.a>>

\* the bounds of the slice the next render will take
RenderBounds == visibleBounds(View(start, selected), Len(List), height)

\* C38: at every render, whatever Updates, resizes and keys came before,
\* the bounds visibleProcesses computes satisfy 0 <= start <= end <=
\* len(List), so that the render does not fail with slice bounds out of
\* range.
C38_SliceInRange ==
    pc = "draw" =>
        /\ 0 <= RenderBounds.start
        /\ RenderBounds.start <= RenderBounds.end
        /\ RenderBounds.end <= Len(List)

\* the driver had scrolled down, an Update has left fewer processes than
\* start, and the render has panicked
C38_Witness ==
    /\ pc = "panic"
    /\ lastEv = "Draw"
    /\ ~treeFlag
    /\ start > Len(List)
    /\ exitCode = <<2>>

\* init is in the Map, and so is kthreadd when kernel threads are shown
RootsThere == InitPid \in DOMAIN Map /\ (kernelFlag => KthreaddPid \in DOMAIN Map)

\* the tree order visibleProcesses builds
TreeOrder ==
    IF kernelFlag
    THEN TreeList(heap, Map[InitPid], 0).list \o TreeList(heap, Map[KthreaddPid], 0).list
    ELSE TreeList(heap, Map[InitPid], 0).list

\* C39: in tree mode, at every render the tree order (the TreeList of PID
\* 1, then that of PID 2 when kernel threads are shown) exists and holds
\* every Process of the List exactly once, so that it is as long as the
\* List and the slice [start:end] of it is in range whenever it is in
\* range of the List; for every table Update can produce, also with a PID
\* allow-list.
C39_TreeCoversList ==
    (treeFlag /\ pc = "draw") =>
        IF ~RootsThere THEN FALSE
        ELSE /\ Len(TreeOrder) = Len(List)
             /\ Range(TreeOrder) = Range(List)
             /\ \A o \in Range(List) : Occurrences(TreeOrder, o) = 1

\* jtop -t -k -p 1: the List holds init alone, the Map has no kthreadd,
\* and the render has panicked
C39_Witness ==
    /\ treeFlag /\ kernelFlag
    /\ PidWhitelist = {1}
    /\ Len(List) = 1
    /\ KthreaddPid \notin DOMAIN Map
    /\ lastEv = "Draw"
    /\ pc = "panic"

\* the calls of termbox.Init and termbox.Close among the effects e, in order
InitsAndCloses(e) == SelectSeq(e, LAMBDA x : x \in {"Init", "Close"})

\* termbox.Init and termbox.Close alternate in e, Init first
Alternate(e) ==
    \A i \in DOMAIN InitsAndCloses(e) :
        InitsAndCloses(e)[i] = IF i % 2 = 1 THEN "Init" ELSE "Close"

\* C40: the terminal is initialised whenever the driver renders and
\* whenever the goroutine of the events polls the terminal; termbox.Init
\* and termbox.Close alternate, Init first; and between the Close and the
\* Init of a Ctrl-Z neither a render nor a poll takes place, for every
\* interleaving of the goroutine and the driver.
C40_TerminalReady ==
    [][/\ (polled = << >> /\ polled' # << >>) => term = "open"
       /\ (pc = "draw" /\ pc' # "draw") => term = "open"
       /\ Alternate(effects')]_vars

\* the driver has closed the terminal for Ctrl-Z and has not yet stopped
\* the process; the goroutine, free again, has polled the closed terminal
\* and holds the event
C40_Witness ==
    /\ pc = "suspend"
    /\ term = "closed"
    /\ lastEv = "CtrlZ"
    /\ polled # << >>
    /\ InitsAndCloses(effects) = <<"Init", "Close">>

====
